---- MODULE Spec2Model ----
(***************************************************************************)
(* A model of the 3CB solver: the game state, the phase handlers, the      *)
(* action generator, combat damage, the transposition and dominance        *)
(* tables and the minimax search.  A Python list is a sequence (indices    *)
(* from 1, where Python counts from 0), a dict is a function on its keys,  *)
(* sorted(...) of a list of tuples is the bag of its elements (two sorted  *)
(* tuples are equal exactly when the bags are), None is the value None.    *)
(***************************************************************************)
EXTENDS Integers, Sequences, FiniteSets, TLC

VARIABLES
  state,      \* the GameState the driver holds (the root handed to the search)
  memo,       \* the transposition table: key -> <<value, flag>>
  dominance,  \* the dominance table: board key -> sequence of <<my, opp, result>>
  out         \* what the last operation returned

vars == <<state, memo, dominance, out>>

Players == {0, 1}

\* Python's None where the other values are integers (winner, a lookup miss).
None == 99

\* Python's None where the other values are tuples (prev_main_sig).
NoSig == <<>>

Max(a, b) == IF a >= b THEN a ELSE b
Min(a, b) == IF a <= b THEN a ELSE b

Range(s) == {s[i] : i \in DOMAIN s}

\* sorted(xs) for a list whose order is irrelevant afterwards: its bag.
sorted(s) == [x \in Range(s) |-> Cardinality({i \in DOMAIN s : s[i] = x})]

\* list.pop(i) / del list[i]
RemoveAt(s, i) == [j \in 1..(Len(s) - 1) |-> IF j < i THEN s[j] ELSE s[j + 1]]

RECURSIVE SeqOfSet(_)
\* a set of integers as the increasing list Python's enumerate() meets them in
SeqOfSet(S) == IF S = {} THEN <<>>
               ELSE LET m == CHOOSE x \in S : \A y \in S : x <= y
                    IN <<m>> \o SeqOfSet(S \ {m})

(***************************************************************************)
(* Cards.  A card object is a record: the constructor arguments that the   *)
(* engine reads (name, owner, power, toughness, keywords, the mana a land  *)
(* produces, the colour a spell costs) and the mutable fields.             *)
(***************************************************************************)
Card(cls, name, owner, power, toughness, keywords, mana_produced, cost) ==
  [cls |-> cls, name |-> name, owner |-> owner, power |-> power,
   toughness |-> toughness, keywords |-> keywords,
   mana_produced |-> mana_produced, cost |-> cost,
   tapped |-> FALSE, damage |-> 0, attacking |-> FALSE,
   entered_this_turn |-> FALSE, plus_counters |-> 0,
   target_spell_name |-> ""]

Land(name, owner, mana_produced) ==
  Card("Land", name, owner, 0, 0, {}, mana_produced, "")

Creature(name, owner, power, toughness, cost, keywords) ==
  Card("Creature", name, owner, power, toughness, keywords, "", cost)

DragonSniper(owner) ==
  Card("DragonSniper", "Dragon Sniper", owner, 1, 1,
       {"vigilance", "reach", "deathtouch"}, "", "G")

\* cards/heartfire_hero.py: targeted_this_turn stays False, no modelled spell
\* targets it
HeartfireHero(owner) ==
  Card("HeartfireHero", "Heartfire Hero", owner, 1, 1, {}, "", "R")

\* cards/luminarch_aspirant.py: a 1/1 with counters and the flag of its
\* combat-begin trigger
LuminarchAspirant(owner) ==
  [combat_trigger_used |-> FALSE]
    @@ Card("LuminarchAspirant", "Luminarch Aspirant", owner, 1, 1, {}, "", "W")

\* cards/shrieking_affliction.py, an Enchantment
ShriekingAffliction(owner) ==
  Card("ShriekingAffliction", "Shrieking Affliction", owner, 0, 0, {}, "", "B")

\* cards/mental_misstep.py, an Instant: target_spell_name "" is None
MentalMisstep(owner) ==
  Card("MentalMisstep", "Mental Misstep", owner, 0, 0, {}, "", "")

create_plains(owner) == Land("Plains", owner, "W")
create_forest(owner) == Land("Forest", owner, "G")
\* a basic land producing black mana: Land("Swamp", owner, "B")
Swamp(owner) == Land("Swamp", owner, "B")
create_mountain(owner) == Land("Mountain", owner, "R")

\* isinstance(card, Creature) / card.is_creature(): DragonSniper and
\* HeartfireHero are subclasses of Creature.
isCreature(card) ==
  card.cls \in {"Creature", "DragonSniper", "HeartfireHero", "LuminarchAspirant"}

\* hasattr(card, 'power') / 'damage' / 'attacking': the Creature classes have them.
hasPower(card) == isCreature(card)

(***************************************************************************)
(* helpers.py                                                              *)
(***************************************************************************)
\* hasattr(card, 'plus_counters'): of the modelled classes, HeartfireHero and
\* LuminarchAspirant
has_plus_counters(card) == card.cls \in {"HeartfireHero", "LuminarchAspirant"}

\* HeartfireHero.current_power / current_toughness
current_power(card) == card.power + card.plus_counters

current_toughness(card) == card.toughness + card.plus_counters

\* `getattr(card, 'eot_power_boost', 0)`: only a card that was given the
\* attribute (Thallid, a Saproling, a Pendelhaven target) carries the field.
eot_power_boost(c) ==
  IF "eot_power_boost" \in DOMAIN c THEN c.eot_power_boost ELSE 0

eot_toughness_boost(c) ==
  IF "eot_toughness_boost" \in DOMAIN c THEN c.eot_toughness_boost ELSE 0

get_creature_power(card) ==
  (IF has_plus_counters(card) THEN current_power(card)
   ELSE IF hasPower(card) THEN card.power ELSE 0) + eot_power_boost(card)

get_creature_toughness(card) ==
  (IF has_plus_counters(card) THEN current_toughness(card)
   ELSE IF hasPower(card) THEN card.toughness ELSE 0) + eot_toughness_boost(card)

\* no creature strikes first
has_first_strike_none(card) == FALSE

has_first_strike(card) == "first_strike" \in card.keywords

\* no creature strikes twice
has_double_strike_none(card) == FALSE

has_double_strike(card) == "double_strike" \in card.keywords

\* no creature has deathtouch
has_deathtouch_none(card) == FALSE

\* DragonSniper has the has_deathtouch property (True); Creature reads keywords.
has_deathtouch(card) ==
  IF card.cls = "DragonSniper" THEN TRUE ELSE "deathtouch" \in card.keywords

\* deathtouch that needs no damage
is_lethal_damage_touch(damage, toughness, attacker_has_deathtouch) ==
  attacker_has_deathtouch \/ damage >= toughness

is_lethal_damage(damage, toughness, attacker_has_deathtouch) ==
  IF attacker_has_deathtouch /\ damage > 0 THEN TRUE ELSE damage >= toughness

(***************************************************************************)
(* game_state.py: GameState, the class solver.py has its own copy of.      *)
(* phases/, actions.py and the cast closures of the cards read and write   *)
(* five more fields (library, enchantments, stack, stale_turns,            *)
(* prev_main_sig): MoreFields, and a state that has them is a FullState.   *)
(***************************************************************************)
NoCards == [p \in Players |-> <<>>]

GameState(life, hands, battlefield, active_player, phase, turn) ==
  [life |-> life, hands |-> hands,
   battlefield |-> battlefield, artifacts |-> NoCards, graveyard |-> NoCards,
   active_player |-> active_player, phase |-> phase, turn |-> turn,
   land_played_this_turn |-> FALSE, blocking_assignments |-> <<>>,
   game_over |-> FALSE, winner |-> None]

MoreFields(library) ==
  [library |-> library, enchantments |-> NoCards, stack |-> <<>>,
   stale_turns |-> 0, prev_main_sig |-> NoSig]

FullState(life, hands, library, battlefield, active_player, phase, turn) ==
  GameState(life, hands, battlefield, active_player, phase, turn)
    @@ MoreFields(library)

\* what reading an attribute the state object does not have raises
AttributeError == [raised |-> "AttributeError"]

\* Untapped mana sources of one colour (each modelled land produces 1).
mana_sources(s, player, color) ==
  {i \in DOMAIN s.battlefield[player] :
     /\ s.battlefield[player][i].mana_produced = color
     /\ color # ""
     /\ ~s.battlefield[player][i].tapped}

get_available_mana_by_color(s, player, color) ==
  Cardinality(mana_sources(s, player, color))

get_available_mana(s, player) ==
  Cardinality({i \in DOMAIN s.battlefield[player] :
                 /\ s.battlefield[player][i].mana_produced # ""
                 /\ ~s.battlefield[player][i].tapped})

\* pay_mana: tap untapped lands of the colour, in battlefield order, until
\* `amount` is paid.
pay_mana(s, player, color, amount) ==
  LET lands == SeqOfSet(mana_sources(s, player, color))
      used  == {lands[k] : k \in 1..Min(amount, Len(lands))}
  IN [s EXCEPT !.battlefield[player] =
        [i \in DOMAIN @ |-> IF i \in used THEN [@[i] EXCEPT !.tapped = TRUE]
                                          ELSE @[i]]]

get_attackers(s) ==
  {i \in DOMAIN s.battlefield[s.active_player] :
     s.battlefield[s.active_player][i].attacking}

\* One battlefield entry of signature().  The entry holds
\* getattr(c, 'is_creature', False), which is the bound method
\* Card.is_creature of the card object (cards/base.py:70), not its result: it
\* is equal only to the same method of the same object.  `method` stands for
\* it: <<oid, player, i>> is the i-th permanent of `player` in the state
\* object oid.  The counters the modelled classes lack are the same default
\* in every entry.
bf_entry(c, method) ==
  <<c.name, c.tapped, c.entered_this_turn, method, c.attacking, c.damage,
    c.plus_counters>>

\* tuple(sorted(...)) of the entries: the entries of one battlefield differ in
\* their method, so the sorted tuple is given by the set.
bf_signature(s, player, oid) ==
  {bf_entry(s.battlefield[player][i], <<oid, player, i>>) :
     i \in DOMAIN s.battlefield[player]}

\* sorted() compares the entries as tuples.  When two entries agree on
\* everything before the bound method it compares the methods and raises
\* TypeError: p1_bf has (name, tapped, stun_counters, entered_this_turn)
\* before it, p2_bf has (name, tapped, stun_counters).
sorted_raises(s, player) ==
  \E i, j \in DOMAIN s.battlefield[player] :
     /\ i < j
     /\ s.battlefield[player][i].name = s.battlefield[player][j].name
     /\ s.battlefield[player][i].tapped = s.battlefield[player][j].tapped
     /\ (player = 0 => s.battlefield[player][i].entered_this_turn
                         = s.battlefield[player][j].entered_this_turn)

signature_raises(s) == sorted_raises(s, 0) \/ sorted_raises(s, 1)

\* a signature entry that does not look at the hand
hand_signature_blind(s, player) == <<>>

hand_signature(s, player) ==
  sorted([i \in DOMAIN s.hands[player] |-> s.hands[player][i].name])

art_signature(s, player) ==
  sorted([i \in DOMAIN s.artifacts[player] |->
            <<s.artifacts[player][i].name, s.artifacts[player][i].tapped>>])

\* board_signature(): everything signature() has, except the life totals.
board_signature(s, oid) ==
  <<s.active_player, s.land_played_this_turn,
    hand_signature(s, 0), hand_signature(s, 1),
    bf_signature(s, 0, oid), bf_signature(s, 1, oid),
    art_signature(s, 0), art_signature(s, 1),
    s.blocking_assignments>>

\* a signature that keeps the active player only
signature_coarse(s, oid) == <<s.active_player>>

\* signature(): the turn number is not part of it.
signature(s, oid) ==
  <<<<s.life[0], s.life[1]>>, s.active_player, s.land_played_this_turn,
    hand_signature(s, 0), hand_signature(s, 1),
    bf_signature(s, 0, oid), bf_signature(s, 1, oid),
    art_signature(s, 0), art_signature(s, 1),
    s.blocking_assignments>>

(***************************************************************************)
(* tables.py                                                               *)
(***************************************************************************)
\* a lookup that takes a bound only when it lies strictly outside the window
lookup_transposition_strict(table, key, alpha, beta) ==
  IF key \notin DOMAIN table THEN None
  ELSE LET cached_value == table[key][1]
           flag == table[key][2]
       IN IF flag = "exact" THEN cached_value
          ELSE IF flag = "lower" /\ cached_value > beta THEN cached_value
          ELSE IF flag = "upper" /\ cached_value < alpha THEN cached_value
          ELSE None

lookup_transposition(table, key, alpha, beta) ==
  IF key \notin DOMAIN table THEN None
  ELSE LET cached_value == table[key][1]
           flag == table[key][2]
       IN IF flag = "exact" THEN cached_value
          ELSE IF flag = "lower" /\ cached_value >= beta THEN cached_value
          ELSE IF flag = "upper" /\ cached_value <= alpha THEN cached_value
          ELSE None

transposition_flag(value, original_alpha, beta) ==
  IF value <= original_alpha THEN "upper"
  ELSE IF value >= beta THEN "lower"
  ELSE "exact"

\* memo[key] = (value, flag)
put(table, key, entry) == [k \in DOMAIN table \cup {key} |->
                             IF k = key THEN entry ELSE table[k]]

store_transposition(table, key, value, original_alpha, beta) ==
  put(table, key, <<value, transposition_flag(value, original_alpha, beta)>>)

RECURSIVE scan_dominance(_, _, _, _)
\* the for loop of check_dominance over the stored triples, from index i
scan_dominance(entries, i, my_life, opp_life) ==
  IF i > Len(entries) THEN None
  ELSE LET cached_my_life == entries[i][1]
           cached_opp_life == entries[i][2]
           cached_result == entries[i][3]
       IN IF cached_my_life >= my_life /\ cached_opp_life <= opp_life
             /\ cached_result = -1 THEN -1
          ELSE IF cached_my_life <= my_life /\ cached_opp_life >= opp_life
                  /\ cached_result = 1 THEN 1
          ELSE scan_dominance(entries, i + 1, my_life, opp_life)

\* a query that takes the opponent's life for the player's
check_dominance_swapped(table, board_key, life, player) ==
  IF board_key \notin DOMAIN table THEN None
  ELSE scan_dominance(table[board_key], 1, life[1 - player], life[player])

check_dominance(table, board_key, life, player) ==
  IF board_key \notin DOMAIN table THEN None
  ELSE scan_dominance(table[board_key], 1, life[player], life[1 - player])

store_dominance(table, board_key, life, player, res) ==
  put(table, board_key,
      (IF board_key \in DOMAIN table THEN table[board_key] ELSE <<>>)
        \o << <<life[player], life[1 - player], res>> >>)

\* the dominance table after a node's result is stored whatever its kind
dominance_after_any(table, board_key, life, player, best_score, flag) ==
  store_dominance(table, board_key, life, player, best_score)

\* solver.py, the end of minimax: the dominance table after the node's
\* result is stored with the kind flag (the append is in the exact branch)
dominance_after(table, board_key, life, player, best_score, flag) ==
  IF flag = "exact"
  THEN store_dominance(table, board_key, life, player, best_score)
  ELSE table

(***************************************************************************)
(* combat.py: resolve_combat_damage, and solver.py's older copy of it,     *)
(* which differs only in not ending the game before the deaths are         *)
(* processed.  acc carries ns and the two dead sets through the loops.     *)
(***************************************************************************)
attackers_with_idx(s) == SeqOfSet(get_attackers(s))

\* ns.blocking_assignments.get(att_idx), with the two tests that follow it
blocker_of(acc, att_idx) ==
  LET ns == acc.ns
      defender == 1 - ns.active_player
  IN IF att_idx \in DOMAIN ns.blocking_assignments
        /\ ns.blocking_assignments[att_idx] <= Len(ns.battlefield[defender])
        /\ ns.blocking_assignments[att_idx] \notin acc.dead_blockers
     THEN ns.blocking_assignments[att_idx]
     ELSE None

any_first_strike(s) ==
  LET defender == 1 - s.active_player
  IN \E a \in get_attackers(s) :
       \/ has_first_strike(s.battlefield[s.active_player][a])
       \/ has_double_strike(s.battlefield[s.active_player][a])
       \/ /\ a \in DOMAIN s.blocking_assignments
          /\ s.blocking_assignments[a] <= Len(s.battlefield[defender])
          /\ LET b == s.battlefield[defender][s.blocking_assignments[a]]
             IN has_first_strike(b) \/ has_double_strike(b)

\* One attacker's share of a damage step.  att_deals / blk_deals say which of
\* the two creatures deals damage in this step.
damage_step(acc, att_idx, first) ==
  LET ns == acc.ns
      ap == ns.active_player
      defender == 1 - ap
      attacker == ns.battlefield[ap][att_idx]
      att_deals == IF first
                   THEN has_first_strike(attacker) \/ has_double_strike(attacker)
                   ELSE ~has_first_strike(attacker) \/ has_double_strike(attacker)
      blocker_idx == blocker_of(acc, att_idx)
  IN IF att_idx \in acc.dead_attackers THEN acc
     ELSE IF blocker_idx # None
     THEN LET blocker == ns.battlefield[defender][blocker_idx]
              blk_deals == IF first
                           THEN has_first_strike(blocker) \/ has_double_strike(blocker)
                           ELSE ~has_first_strike(blocker) \/ has_double_strike(blocker)
              bdmg == blocker.damage
                      + (IF att_deals THEN get_creature_power(attacker) ELSE 0)
              admg == attacker.damage
                      + (IF blk_deals THEN get_creature_power(blocker) ELSE 0)
              ns2 == [ns EXCEPT !.battlefield[defender][blocker_idx].damage = bdmg,
                                !.battlefield[ap][att_idx].damage = admg]
          IN [ns |-> ns2,
              dead_blockers |->
                 IF is_lethal_damage(bdmg, get_creature_toughness(blocker),
                                     has_deathtouch(attacker))
                 THEN acc.dead_blockers \cup {blocker_idx} ELSE acc.dead_blockers,
              dead_attackers |->
                 IF is_lethal_damage(admg, get_creature_toughness(attacker),
                                     has_deathtouch(blocker))
                 THEN acc.dead_attackers \cup {att_idx} ELSE acc.dead_attackers]
     ELSE IF att_deals
     THEN [acc EXCEPT !.ns.life[defender] = @ - get_creature_power(attacker)]
     ELSE acc

RECURSIVE damage_loop(_, _, _, _)
damage_loop(acc, atts, k, first) ==
  IF k > Len(atts) THEN acc
  ELSE damage_loop(damage_step(acc, atts[k], first), atts, k + 1, first)

\* a check that never ends the game
life_check_none(ns) == ns

life_check(ns) ==
  IF ns.life[0] <= 0 THEN [ns EXCEPT !.game_over = TRUE, !.winner = 1]
  ELSE IF ns.life[1] <= 0 THEN [ns EXCEPT !.game_over = TRUE, !.winner = 0]
  ELSE ns

\* cards/heartfire_hero.py: HeartfireHero.on_death; the other modelled
\* classes have no on_death
on_death(card, s) ==
  IF card.cls # "HeartfireHero" THEN s
  ELSE LET opponent == 1 - card.owner
           ns == [s EXCEPT !.life[opponent] = @ - current_power(card)]
       IN IF ns.life[opponent] <= 0
          THEN [ns EXCEPT !.game_over = TRUE, !.winner = card.owner]
          ELSE ns

RECURSIVE bury(_, _, _)
\* the dead, highest index first: onto the owner's graveyard, the death
\* trigger, then off the battlefield
bury(ns, player, dead) ==
  IF dead = {} THEN ns
  ELSE LET i == CHOOSE x \in dead : \A y \in dead : x >= y
           c == ns.battlefield[player][i]
           buried == [ns EXCEPT !.graveyard[player] = Append(@, c)]
       IN bury([on_death(c, buried) EXCEPT !.battlefield[player] = RemoveAt(@, i)],
               player, dead \ {i})

combat(s, ends_before_deaths) ==
  LET defender == 1 - s.active_player
      atts == attackers_with_idx(s)
      acc0 == [ns |-> s, dead_attackers |-> {}, dead_blockers |-> {}]
      fs   == any_first_strike(s)
      acc1 == IF fs THEN damage_loop(acc0, atts, 1, TRUE) ELSE acc0
      acc2 == damage_loop(acc1, atts, 1, FALSE)
      done == bury(bury(acc2.ns, defender, acc2.dead_blockers),
                   s.active_player, acc2.dead_attackers)
  IN IF ends_before_deaths /\ fs
        /\ (acc1.ns.life[0] <= 0 \/ acc1.ns.life[1] <= 0)
     THEN [life_check(acc1.ns) EXCEPT !.phase = "end_turn"]
     ELSE IF ends_before_deaths
             /\ (acc2.ns.life[0] <= 0 \/ acc2.ns.life[1] <= 0)
     THEN [life_check(acc2.ns) EXCEPT !.phase = "end_turn"]
     ELSE [life_check(done) EXCEPT !.phase = "end_turn"]

resolve_combat_damage(s) == combat(s, TRUE)

solver_resolve_combat_damage(s) == combat(s, FALSE)

(***************************************************************************)
(* Card actions.  An Action is a record [description, ns]: ns is what      *)
(* action.execute(state) returns.                                          *)
(***************************************************************************)
Action(description, ns) == [description |-> description, ns |-> ns]

\* `for i, card in enumerate(hand): if card.name == name: ... break`
first_named(hand, name) ==
  CHOOSE i \in DOMAIN hand :
    /\ hand[i].name = name
    /\ \A j \in DOMAIN hand : hand[j].name = name => i <= j

\* cards/land.py: Land.get_play_actions and its play_land closure
play_land(s, card) ==
  LET i == first_named(s.hands[card.owner], card.name)
      card_copy == [s.hands[card.owner][i] EXCEPT !.entered_this_turn = TRUE]
      landfall(c) == IF has_plus_counters(c)
                     THEN [c EXCEPT !.plus_counters = @ + 1] ELSE c
      bf == Append(s.battlefield[card.owner], card_copy)
  IN [s EXCEPT !.hands[card.owner] = RemoveAt(@, i),
               !.battlefield[card.owner] = [k \in DOMAIN bf |-> landfall(bf[k])],
               !.land_played_this_turn = TRUE]

Land_get_play_actions(card, s) ==
  IF s.active_player # card.owner THEN <<>>
  ELSE IF s.land_played_this_turn THEN <<>>
  ELSE IF s.phase # "main1" THEN <<>>
  ELSE << Action(<<"Play", card.name>>, play_land(s, card)) >>

\* cards/creature.py: Creature.get_play_actions and its cast closure: the
\* card goes to the stack and the game enters the response phase.
cast(s, card) ==
  LET i == first_named(s.hands[card.owner], card.name)
      card_copy == [s.hands[card.owner][i] EXCEPT !.entered_this_turn = TRUE]
      ns == [s EXCEPT !.hands[card.owner] = RemoveAt(@, i),
                      !.stack = Append(@, card_copy)]
  IN IF "stack" \notin DOMAIN s THEN AttributeError
     ELSE [pay_mana(ns, card.owner, card.cost, 1) EXCEPT !.phase = "response"]

Creature_get_play_actions(card, s) ==
  IF s.active_player # card.owner THEN <<>>
  ELSE IF s.phase # "main1" THEN <<>>
  ELSE IF get_available_mana(s, card.owner) < 1 THEN <<>>
  ELSE IF get_available_mana_by_color(s, card.owner, card.cost) < 1 THEN <<>>
  ELSE << Action(<<"Cast", card.name>>, cast(s, card)) >>

\* cards/creature.py: Creature.resolve
resolve(spell, s) == [s EXCEPT !.battlefield[spell.owner] = Append(@, spell)]

\* cards/dragon_sniper.py: the sniper enters the battlefield directly.
DragonSniper_cast(s, card) ==
  LET ns == pay_mana(s, card.owner, "G", 1)
      i == first_named(ns.hands[card.owner], card.name)
      sniper == [ns.hands[card.owner][i] EXCEPT !.entered_this_turn = TRUE]
  IN [ns EXCEPT !.hands[card.owner] = RemoveAt(@, i),
                !.battlefield[card.owner] = Append(@, sniper)]

DragonSniper_get_play_actions(card, s) ==
  IF s.active_player # card.owner THEN <<>>
  ELSE IF s.phase # "main1" THEN <<>>
  ELSE IF get_available_mana_by_color(s, card.owner, "G") < 1 THEN <<>>
  ELSE << Action(<<"Cast", card.name>>, DragonSniper_cast(s, card)) >>

\* cards/enchantment.py: Enchantment.get_play_actions and its cast closure
Enchantment_cast(s, card) ==
  LET ns == pay_mana(s, card.owner, card.cost, 1)
      i == first_named(ns.hands[card.owner], card.name)
  IN IF "enchantments" \notin DOMAIN s THEN AttributeError
     ELSE [ns EXCEPT !.hands[card.owner] = RemoveAt(@, i),
                     !.enchantments[card.owner] = Append(@, ns.hands[card.owner][i])]

Enchantment_get_play_actions(card, s) ==
  IF s.active_player # card.owner THEN <<>>
  ELSE IF s.phase # "main1" THEN <<>>
  ELSE IF get_available_mana(s, card.owner) < 1 THEN <<>>
  ELSE IF get_available_mana_by_color(s, card.owner, card.cost) < 1 THEN <<>>
  ELSE << Action(<<"Cast", card.name>>, Enchantment_cast(s, card)) >>

\* card.get_play_actions(state), dispatched on the card's class; an Instant
\* has none
get_play_actions(card, s) ==
  IF card.cls = "Land" THEN Land_get_play_actions(card, s)
  ELSE IF card.cls = "DragonSniper" THEN DragonSniper_get_play_actions(card, s)
  ELSE IF card.cls = "ShriekingAffliction" THEN Enchantment_get_play_actions(card, s)
  ELSE IF card.cls = "MentalMisstep" THEN <<>>
  ELSE Creature_get_play_actions(card, s)

RECURSIVE hand_actions(_, _, _)
\* `for card in state.hands[player]: actions.extend(card.get_play_actions(state))`
hand_actions(s, player, k) ==
  IF k > Len(s.hands[player]) THEN <<>>
  ELSE get_play_actions(s.hands[player][k], s) \o hand_actions(s, player, k + 1)

\* Creature.can_attack
can_attack(card) == ~card.tapped /\ ~card.entered_this_turn

\* Creature.can_block: no modelled card has cant_be_blocked_by entries.
can_block(blocker, attacker) ==
  /\ ~blocker.tapped
  /\ ("flying" \in attacker.keywords
        => ("flying" \in blocker.keywords \/ "reach" \in blocker.keywords))

\* The creatures an attack action is generated for: the eligible ones, one
\* per signature (the first in battlefield order).
\* actions.py's signature (no modelled card has a level)
creature_sig(c) ==
  <<c.name, c.power, c.toughness, c.plus_counters,
    eot_power_boost(c), eot_toughness_boost(c)>>

eligible_attackers(s) ==
  LET bf == s.battlefield[s.active_player]
      ok(i) == /\ isCreature(bf[i])
               /\ can_attack(bf[i])
               /\ ~bf[i].tapped
               /\ ~bf[i].attacking
               /\ ~bf[i].entered_this_turn
  IN {i \in DOMAIN bf :
        ok(i) /\ \A j \in 1..(i - 1) : ok(j) => creature_sig(bf[j]) # creature_sig(bf[i])}

\* solver.py:290-307: the attackers the search generates an action for; its
\* signature leaves the until-end-of-turn boosts out
seen_attackers(s) ==
  LET bf == s.battlefield[s.active_player]
      sig(c) == <<c.name, c.power, c.toughness, c.plus_counters>>
      ok(i) == /\ isCreature(bf[i])
               /\ can_attack(bf[i])
               /\ ~bf[i].tapped
               /\ ~bf[i].attacking
               /\ ~bf[i].entered_this_turn
  IN {i \in DOMAIN bf :
        ok(i) /\ \A j \in 1..(i - 1) : ok(j) => sig(bf[j]) # sig(bf[i])}

\* solver.py:374 compares attackers by less than actions.py does
solver_attacker_sig(c) == <<c.name, c.power>>

\* The (blocker, attacker) pairs a block action is generated for, deduplicated
\* by block_sig as the nested loops meet them.  in_solver says whose
\* attacker_sig it is: solver.py's or actions.py's.
block_pairs(s, in_solver) ==
  LET defender == 1 - s.active_player
      bf == s.battlefield[defender]
      att == s.battlefield[s.active_player]
      ok(b, a) == /\ isCreature(bf[b])
                  /\ ~bf[b].tapped
                  /\ \A k \in DOMAIN s.blocking_assignments :
                        s.blocking_assignments[k] # b
                  /\ a \in get_attackers(s)
                  /\ a \notin DOMAIN s.blocking_assignments
                  /\ can_block(bf[b], att[a])
      attacker_sig(c) == IF in_solver THEN solver_attacker_sig(c)
                         ELSE creature_sig(c)
      \* solver.py:363-364 against actions.py:168-170
      blocker_sig(c) == IF in_solver
                        THEN <<c.name, c.power, c.toughness, c.plus_counters>>
                        ELSE creature_sig(c)
      sig(b, a) == <<blocker_sig(bf[b]), attacker_sig(att[a])>>
      before(b2, a2, b, a) == b2 < b \/ (b2 = b /\ a2 < a)
  IN {p \in (DOMAIN bf) \X (DOMAIN att) :
        /\ ok(p[1], p[2])
        /\ \A q \in (DOMAIN bf) \X (DOMAIN att) :
              (ok(q[1], q[2]) /\ before(q[1], q[2], p[1], p[2]))
                 => sig(q[1], q[2]) # sig(p[1], p[2])}

RECURSIVE block_list_swapped(_, _, _)
\* the block actions with the map written the other way round: the blocker's
\* index as the key, the attacker's as the value
block_list_swapped(s, pairs, b) ==
  IF b > Len(s.battlefield[1 - s.active_player]) THEN <<>>
  ELSE LET as == SeqOfSet({p[2] : p \in {q \in pairs : q[1] = b}})
       IN [k \in 1..Len(as) |->
             Action(<<"Block", as[k], b>>,
                    [s EXCEPT !.blocking_assignments =
                        [x \in DOMAIN @ \cup {b} |->
                           IF x = b THEN as[k] ELSE @[x]]])]
          \o block_list_swapped(s, pairs, b + 1)

RECURSIVE block_list(_, _, _)
\* the block actions in generation order: by blocker index, then attacker index
block_list(s, pairs, b) ==
  IF b > Len(s.battlefield[1 - s.active_player]) THEN <<>>
  ELSE LET as == SeqOfSet({p[2] : p \in {q \in pairs : q[1] = b}})
       IN [k \in 1..Len(as) |->
             Action(<<"Block", as[k], b>>,
                    [s EXCEPT !.blocking_assignments =
                        [x \in DOMAIN @ \cup {as[k]} |->
                           IF x = as[k] THEN b ELSE @[x]]])]
          \o block_list(s, pairs, b + 1)

no_block(s) == [s EXCEPT !.phase = "combat_damage"]

(***************************************************************************)
(* cards/pendelhaven.py: the one modelled card with a battlefield ability, *)
(* and cards/thallid.py, a 1/1 it can target.                              *)
(***************************************************************************)
Pendelhaven(owner) == Card("Pendelhaven", "Pendelhaven", owner, 0, 0, {}, "G", "")

\* a 1/1 that carries the boost attributes from construction on, and whose
\* copy() keeps them
Thallid(owner) ==
  [eot_power_boost |-> 0, eot_toughness_boost |-> 0]
    @@ Creature("Thallid", owner, 1, 1, "G", {})

\* pendelhaven.py:79-80: +1/+2 until end of turn
pump(c) ==
  [eot_power_boost |-> eot_power_boost(c) + 1,
   eot_toughness_boost |-> eot_toughness_boost(c) + 2] @@ c

\* Pendelhaven.get_battlefield_actions: one pump per 1/1 creature of its
\* owner, a creature out of combat only if no earlier 1/1 has its name
Pendelhaven_get_battlefield_actions(card, s) ==
  LET bf == s.battlefield[card.owner]
      one_one(i) == /\ hasPower(bf[i])
                    /\ get_creature_power(bf[i]) = 1
                    /\ get_creature_toughness(bf[i]) = 1
      is_in_combat(i) ==
        \/ bf[i].attacking
        \/ /\ card.owner # s.active_player
           /\ \E a \in DOMAIN s.blocking_assignments : s.blocking_assignments[a] = i
      targets == SeqOfSet({i \in DOMAIN bf :
                    /\ one_one(i)
                    /\ (is_in_combat(i)
                          \/ \A j \in 1..(i - 1) :
                                one_one(j) => bf[j].name # bf[i].name)})
      land == CHOOSE k \in DOMAIN bf :
                /\ bf[k].name = "Pendelhaven" /\ ~bf[k].tapped
                /\ \A j \in 1..(k - 1) : ~(bf[j].name = "Pendelhaven" /\ ~bf[j].tapped)
  IN IF s.phase # "combat_block" \/ card.tapped THEN <<>>
     ELSE [k \in 1..Len(targets) |->
             Action(<<"Pendelhaven", targets[k]>>,
                    [s EXCEPT !.battlefield[card.owner] =
                        [i \in DOMAIN bf |->
                           IF i = targets[k] THEN pump(bf[i])
                           ELSE IF i = land THEN [bf[i] EXCEPT !.tapped = TRUE]
                           ELSE bf[i]]])]

\* LuminarchAspirant.get_battlefield_actions: the combat-begin trigger, one
\* action per name among the owner's creatures.  The closures mark the first
\* Aspirant as used and put the counter on the first card of the name.
LuminarchAspirant_get_battlefield_actions(card, s) ==
  LET bf == s.battlefield[card.owner]
      creatures == SeqOfSet({i \in DOMAIN bf : hasPower(bf[i])})
      names == SeqOfSet({i \in DOMAIN bf :
                 /\ hasPower(bf[i])
                 /\ \A j \in 1..(i - 1) : hasPower(bf[j]) => bf[j].name # bf[i].name})
      aspirant == CHOOSE k \in DOMAIN bf :
                    /\ bf[k].cls = "LuminarchAspirant"
                    /\ \A j \in 1..(k - 1) : bf[j].cls # "LuminarchAspirant"
      used == [i \in DOMAIN bf |->
                 IF i = aspirant THEN [bf[i] EXCEPT !.combat_trigger_used = TRUE]
                 ELSE bf[i]]
      buff(i) == [s EXCEPT !.battlefield[card.owner] =
                     [used EXCEPT ![i].plus_counters = @ + 1]]
  IN IF \/ s.active_player # card.owner
        \/ s.phase # "combat_attack"
        \/ card.combat_trigger_used
     THEN <<>>
     ELSE IF Len(creatures) = 1 /\ bf[creatures[1]].name = card.name
     THEN << Action(<<"Aspirant", "self">>, buff(aspirant)) >>
     ELSE [k \in 1..Len(names) |->
             Action(<<"Aspirant", bf[names[k]].name>>, buff(names[k]))]

RECURSIVE battlefield_actions(_, _, _)
\* `for card in state.battlefield[player]:
\*      actions.extend(card.get_battlefield_actions(state))`
battlefield_actions(s, player, k) ==
  IF k > Len(s.battlefield[player]) THEN <<>>
  ELSE (IF s.battlefield[player][k].cls = "Pendelhaven"
        THEN Pendelhaven_get_battlefield_actions(s.battlefield[player][k], s)
        ELSE IF s.battlefield[player][k].cls = "LuminarchAspirant"
        THEN LuminarchAspirant_get_battlefield_actions(s.battlefield[player][k], s)
        ELSE <<>>)
       \o battlefield_actions(s, player, k + 1)

(***************************************************************************)
(* solver.py: the transitions the search itself uses (its own              *)
(* get_available_actions and end_turn).                                    *)
(***************************************************************************)
solver_attack(s, card_idx) ==
  [s EXCEPT !.battlefield[s.active_player][card_idx].attacking = TRUE,
            !.battlefield[s.active_player][card_idx].tapped = TRUE]

solver_no_attack(s) ==
  IF get_attackers(s) # {} THEN [s EXCEPT !.phase = "combat_block"]
  ELSE [s EXCEPT !.phase = "end_turn"]

solver_get_available_actions(s) ==
  LET player == s.active_player
  IN IF s.phase = "main1"
     THEN hand_actions(s, player, 1)
          \o << Action(<<"Pass to Combat">>, [s EXCEPT !.phase = "combat_attack"]) >>
     ELSE IF s.phase = "combat_attack"
     THEN LET idx == SeqOfSet(seen_attackers(s))
          IN battlefield_actions(s, player, 1)
             \o [k \in 1..Len(idx) |->
                   Action(<<"Attack", idx[k]>>, solver_attack(s, idx[k]))]
             \o << Action(<<"No Attack">>, solver_no_attack(s)) >>
     ELSE IF s.phase = "combat_block"
     THEN battlefield_actions(s, 1 - player, 1)
          \o block_list(s, block_pairs(s, TRUE), 1)
          \o << Action(<<"No Block">>, no_block(s)) >>
     ELSE <<>>

solver_end_turn(s) ==
  LET ap == s.active_player
      np == 1 - ap
      cleaned == [p \in Players |->
                    [i \in DOMAIN s.battlefield[p] |->
                       LET c == s.battlefield[p][i]
                       IN IF hasPower(c)
                          THEN [c EXCEPT !.attacking = IF p = ap THEN FALSE ELSE @,
                                         !.damage = 0]
                          ELSE c]]
      untapped == [cleaned EXCEPT ![np] =
                     [i \in DOMAIN @ |-> [@[i] EXCEPT !.tapped = FALSE,
                                                      !.entered_this_turn = FALSE]]]
  IN [s EXCEPT !.battlefield = untapped,
               !.artifacts[np] = [i \in DOMAIN @ |-> [@[i] EXCEPT !.tapped = FALSE]],
               !.blocking_assignments = <<>>,
               !.active_player = np,
               !.phase = "main1",
               !.land_played_this_turn = FALSE,
               !.turn = @ + 1]

\* minimax's depth-limit heuristics (depth > 500), defined below as
\* max_depth_value.  First, the same limit scored by material: the
\* creatures of the player less those of the opponent
max_depth_value_material(s, player) ==
  LET creatures(p) == {i \in DOMAIN s.battlefield[p] :
                         hasPower(s.battlefield[p][i]) /\ s.battlefield[p][i].power > 0}
  IN Cardinality(creatures(player)) - Cardinality(creatures(1 - player))

max_depth_value(s, player) ==
  LET creatures(p) == {i \in DOMAIN s.battlefield[p] :
                         hasPower(s.battlefield[p][i]) /\ s.battlefield[p][i].power > 0}
      has_token_gen(p) == \E i \in DOMAIN s.battlefield[p] :
                             s.battlefield[p][i].name = "Thallid"
      can_grow(p) == \E i \in creatures(p) : has_plus_counters(s.battlefield[p][i])
  IN IF s.hands[0] = <<>> /\ s.hands[1] = <<>>
     THEN IF creatures(0) # {} /\ creatures(1) = {}
          THEN (IF player = 0 THEN 1 ELSE -1)
          ELSE IF creatures(1) # {} /\ creatures(0) = {}
          THEN (IF player = 1 THEN 1 ELSE -1)
          ELSE IF has_token_gen(1) /\ ~has_token_gen(0) /\ ~can_grow(0)
          THEN (IF player = 1 THEN 1 ELSE -1)
          ELSE IF has_token_gen(0) /\ ~has_token_gen(1) /\ ~can_grow(1)
          THEN (IF player = 0 THEN 1 ELSE -1)
          ELSE 0
     ELSE 0

\* the result scored for player 0 whoever asks
terminal_value_of_first(s, player) ==
  IF s.winner = 0 THEN 1
  ELSE IF s.winner = 1 THEN -1
  ELSE 0

\* the winner scored as the loser
terminal_value_inverted(s, player) ==
  IF s.winner = player THEN -1
  ELSE IF s.winner = 1 - player THEN 1
  ELSE 0

terminal_value(s, player) ==
  IF s.winner = player THEN 1
  ELSE IF s.winner = 1 - player THEN -1
  ELSE 0

\* the active player decides in every phase
decision_maker_active(s) == s.active_player

\* `if state.phase == "combat_block": decision_maker = 1 - state.active_player`
decision_maker(s) ==
  IF s.phase = "combat_block" THEN 1 - s.active_player ELSE s.active_player

\* the forced phase change of a node without actions; None where the code
\* sets result = 0
no_action_phase(s) ==
  IF s.phase = "main1" THEN "combat_attack"
  ELSE IF s.phase = "combat_attack" THEN "end_turn"
  ELSE IF s.phase = "combat_block" THEN "combat_damage"
  ELSE "none"

(***************************************************************************)
(* solver.py: minimax.  The Python function returns the value and updates  *)
(* memo and dominance in place; the operator returns them with the value.  *)
(* oid is the identity of the state object the call is given; every        *)
(* action.execute, state.copy and automatic phase makes a new object, and  *)
(* `next` in the result is the first identity the call has not used.       *)
(* An exception leaves the search through every caller: the value Raised   *)
(* stands for it.  `use` says which tables are consulted and filled:       *)
(* solver.py uses both.                                                    *)
(***************************************************************************)
MaxDepth == 500

Raised == None + 1

TablesOn == [tt |-> TRUE, dom |-> TRUE]

\* `new_state = action.execute(state)` raises.  solver.py's GameState
\* (solver.py:13-32) has no stack attribute: the cast closure of
\* cards/creature.py raises AttributeError at `ns.stack.append(card_copy)`.
execute_raises(action) == action.ns = AttributeError

RECURSIVE minimax(_, _, _, _, _, _, _, _, _)
RECURSIVE search_loop(_, _, _, _, _, _, _, _, _, _, _, _)

\* the `for action in actions` loop of a maximizing or minimizing node, from
\* the k-th action on, with its break
search_loop(actions, k, maximizing, player, memo_, depth, alpha, beta, dominance_, use, best_score, next) ==
  IF k > Len(actions)
  THEN [best_score |-> best_score, alpha |-> alpha, beta |-> beta,
        memo |-> memo_, dominance |-> dominance_, next |-> next]
  ELSE IF execute_raises(actions[k])
  THEN [best_score |-> Raised, alpha |-> alpha, beta |-> beta,
        memo |-> memo_, dominance |-> dominance_, next |-> next]
  ELSE LET r == minimax(actions[k].ns, player, memo_, depth + 1, alpha, beta,
                        dominance_, use, next)
           best2 == IF maximizing THEN Max(best_score, r.value)
                                  ELSE Min(best_score, r.value)
           alpha2 == IF maximizing THEN Max(alpha, r.value) ELSE alpha
           beta2 == IF maximizing THEN beta ELSE Min(beta, r.value)
       IN IF r.value = Raised
          THEN [best_score |-> Raised, alpha |-> alpha, beta |-> beta,
                memo |-> r.memo, dominance |-> r.dominance, next |-> r.next]
          ELSE IF alpha2 >= beta2
          THEN [best_score |-> best2, alpha |-> alpha2, beta |-> beta2,
                memo |-> r.memo, dominance |-> r.dominance, next |-> r.next]
          ELSE search_loop(actions, k + 1, maximizing, player, r.memo, depth,
                           alpha2, beta2, r.dominance, use, best2, r.next)

\* what a node returns and stores once its loop has ended: l is the loop's
\* result, `flag` the kind of entry written to memo and to dominance
node_result(s, player, use, key, board_key, original_alpha, l) ==
  LET flag == transposition_flag(l.best_score, original_alpha, l.beta)
  IN IF l.best_score = Raised
     THEN [value |-> Raised, memo |-> l.memo, dominance |-> l.dominance,
           next |-> l.next]
     ELSE [value |-> l.best_score,
           memo |-> IF use.tt THEN put(l.memo, key, <<l.best_score, flag>>)
                    ELSE l.memo,
           dominance |->
              IF use.dom
              THEN dominance_after(l.dominance, board_key, s.life, player,
                                   l.best_score, flag)
              ELSE l.dominance,
           next |-> l.next]

minimax(s, player, memo_, depth, alpha, beta, dominance_, use, oid) ==
  LET key == <<signature(s, oid), s.phase, player>>
      board_key == <<board_signature(s, oid), s.phase, player>>
      cached == IF use.tt THEN lookup_transposition(memo_, key, alpha, beta) ELSE None
      dominated == IF use.dom
                   THEN check_dominance(dominance_, board_key, s.life, player)
                   ELSE None
      original_alpha == alpha
      leaf(value) == [value |-> value, memo |-> memo_, dominance |-> dominance_,
                      next |-> oid + 1]
      \* `result = minimax(new_state, ...); memo[key] = (result, 'exact')`
      through(new_state) ==
        LET r == minimax(new_state, player, memo_, depth + 1, alpha, beta,
                         dominance_, use, oid + 1)
        IN [value |-> r.value,
            memo |-> IF use.tt /\ r.value # Raised
                     THEN put(r.memo, key, <<r.value, "exact">>) ELSE r.memo,
            dominance |-> r.dominance,
            next |-> r.next]
      actions == solver_get_available_actions(s)
  IN IF s.game_over THEN leaf(terminal_value(s, player))
     ELSE IF depth > MaxDepth THEN leaf(max_depth_value(s, player))
     ELSE IF signature_raises(s) THEN leaf(Raised)
     ELSE IF cached # None THEN leaf(cached)
     ELSE IF dominated # None THEN leaf(dominated)
     ELSE IF s.phase = "combat_damage" THEN through(solver_resolve_combat_damage(s))
     ELSE IF s.phase = "end_turn" THEN through(solver_end_turn(s))
     ELSE IF actions = <<>>
     THEN IF no_action_phase(s) # "none"
          THEN through([s EXCEPT !.phase = no_action_phase(s)])
          ELSE [value |-> 0,
                memo |-> IF use.tt THEN put(memo_, key, <<0, "exact">>) ELSE memo_,
                dominance |-> dominance_,
                next |-> oid + 1]
     ELSE node_result(s, player, use, key, board_key, original_alpha,
                      search_loop(actions, 1, decision_maker(s) = player, player,
                                  memo_, depth, alpha, beta, dominance_, use,
                                  IF decision_maker(s) = player THEN -2 ELSE 2,
                                  oid + 1))

(***************************************************************************)
(* Bounds of the searches.  The search is entered Horizon plies before the *)
(* depth limit, so that the whole tree below the root is explored: on      *)
(* entry the depth argument is StartDepth where solver.py passes 0.        *)
(* StartingLife stands for the 20 life solve() starts both players with.   *)
(***************************************************************************)
Horizon == 12

StartingLife == 1

MaxLife == 2

StartDepth == MaxDepth - Horizon

\* solver.py: solve
initial_state(p1_hand, p2_hand, first_player) ==
  GameState([p \in Players |-> StartingLife],
            [p \in Players |-> IF p = 0 THEN p1_hand ELSE p2_hand],
            NoCards, first_player, "main1", 1)

\* solve: what it returns for the result of the search; Raised when minimax
\* raises
solve_result(result) ==
  IF result = Raised THEN <<Raised, "raised">>
  ELSE IF result = 1 THEN <<1, "P1 Wins">>
  ELSE IF result = -1 THEN <<result, "P2 Wins">>
  ELSE <<0, "Draw/Tie">>

\* solve with the tables `use` names
solve_using(p1_hand, p2_hand, first_player, use) ==
  solve_result(minimax(initial_state(p1_hand, p2_hand, first_player), 0, <<>>,
                       StartDepth, -2, 2, <<>>, use, 1).value)

solve(p1_hand, p2_hand, first_player) ==
  solve_using(p1_hand, p2_hand, first_player, TablesOn)

LineLimit == 100

RECURSIVE best_action(_, _, _, _, _, _, _, _)
\* find_optimal_line: what the loop does with r, the score minimax gave the
\* k-th action
best_action_scored(actions, k, who, depth, best, best_score, r) ==
  IF r.value = Raised
  THEN [best |-> 0, best_score |-> Raised, memo |-> r.memo, next |-> r.next]
  ELSE IF best = 0 \/ r.value > best_score
  THEN best_action(actions, k + 1, who, r.memo, depth, k, r.value, r.next)
  ELSE best_action(actions, k + 1, who, r.memo, depth, best, best_score, r.next)

\* solver.py: find_optimal_line, the `for action in actions` loop that keeps
\* the first action of strictly greatest score.  best = 0 is best_action None.
best_action(actions, k, who, memo_, depth, best, best_score, next) ==
  IF k > Len(actions)
  THEN [best |-> best, best_score |-> best_score, memo |-> memo_, next |-> next]
  ELSE IF execute_raises(actions[k])
  THEN [best |-> 0, best_score |-> Raised, memo |-> memo_, next |-> next]
  ELSE best_action_scored(actions, k, who, depth, best, best_score,
                          minimax(actions[k].ns, who, memo_, StartDepth + depth,
                                  -2, 2, <<>>, TablesOn, next))

(***************************************************************************)
(* The search without any pruning: no window, no cutoff, no table.  This   *)
(* is the value the claims compare minimax with.  It is Raised when an     *)
(* action of the tree cannot be executed.                                  *)
(***************************************************************************)
RECURSIVE exhaustive(_, _, _)
exhaustive(s, player, depth) ==
  IF s.game_over THEN terminal_value(s, player)
  ELSE IF depth > MaxDepth THEN max_depth_value(s, player)
  ELSE IF s.phase = "combat_damage"
  THEN exhaustive(solver_resolve_combat_damage(s), player, depth + 1)
  ELSE IF s.phase = "end_turn" THEN exhaustive(solver_end_turn(s), player, depth + 1)
  ELSE LET actions == solver_get_available_actions(s)
           scores == {IF execute_raises(actions[k]) THEN Raised
                      ELSE exhaustive(actions[k].ns, player, depth + 1) :
                        k \in DOMAIN actions}
       IN IF actions = <<>>
          THEN IF no_action_phase(s) # "none"
               THEN exhaustive([s EXCEPT !.phase = no_action_phase(s)], player, depth + 1)
               ELSE 0
          ELSE IF Raised \in scores THEN Raised
          ELSE IF decision_maker(s) = player
          THEN CHOOSE v \in scores : \A w \in scores : v >= w
          ELSE CHOOSE v \in scores : \A w \in scores : v <= w

(***************************************************************************)
(* The positions the searches are started from: the states solve() builds  *)
(* from two hands, and positions with permanents already on the            *)
(* battlefield, as the callers of minimax and find_optimal_line build them.*)
(***************************************************************************)
Bear(owner) == Creature("Bear", owner, 2, 2, "W", {})

Hands(owner) ==
  { <<>>,
    <<create_forest(owner), DragonSniper(owner)>>,
    <<create_forest(owner), create_forest(owner)>>,
    <<create_plains(owner), Bear(owner)>> }

Boards(owner) ==
  { <<>>,
    <<Bear(owner)>>,
    <<DragonSniper(owner)>>,
    <<Bear(owner), DragonSniper(owner)>> }

SolveRoots ==
  {initial_state(h0, h1, fp) : h0 \in Hands(0), h1 \in Hands(1), fp \in Players}

PositionRoots ==
  {GameState(life, NoCards, [p \in Players |-> IF p = 0 THEN b0 ELSE b1],
             0, "main1", 1) :
     life \in [Players -> 1..MaxLife], b0 \in Boards(0), b1 \in Boards(1)}

SearchRoots == SolveRoots \cup PositionRoots

MaxTurn == 2

\* one step of the game as the search plays it
solver_successors(s) ==
  IF s.game_over THEN {}
  ELSE IF s.phase = "combat_damage" THEN {solver_resolve_combat_damage(s)}
  ELSE IF s.phase = "end_turn" THEN {solver_end_turn(s)}
  ELSE LET actions == solver_get_available_actions(s)
       IN {actions[k].ns : k \in {j \in DOMAIN actions : ~execute_raises(actions[j])}}

Idle == [op |-> "none"]

InitSearch ==
  /\ state \in SearchRoots
  /\ memo = <<>>
  /\ dominance = <<>>
  /\ out = Idle

\* the driver plays one action (or one automatic phase) of the game
SearchWalk ==
  /\ out = Idle
  /\ state.turn <= MaxTurn
  /\ state' \in solver_successors(state)
  /\ UNCHANGED <<memo, dominance, out>>

\* minimax(state, player) on the current position, with the tables it makes
\* for itself
RunMinimax ==
  /\ out = Idle
  /\ \E player \in Players :
       out' = [op |-> "minimax", player |-> player,
               value |-> minimax(state, player, <<>>, StartDepth, -2, 2, <<>>,
                                 TablesOn, 1).value]
  /\ UNCHANGED <<state, memo, dominance>>

\* solve(p1_hand, p2_hand, first_player): state is the initial state it builds
RunSolve ==
  /\ out = Idle
  /\ \E h0 \in Hands(0), h1 \in Hands(1), fp \in Players :
       /\ state = initial_state(h0, h1, fp)
       /\ out' = [op |-> "solve", result |-> solve(h0, h1, fp),
                  p1_hand |-> h0, p2_hand |-> h1, first_player |-> fp]
  /\ UNCHANGED <<state, memo, dominance>>

\* find_optimal_line(state, player): the call, with the memo it makes
StartLine ==
  /\ out = Idle
  /\ state \in SearchRoots
  /\ out' = [op |-> "line", status |-> "running", depth |-> 0, attacks |-> 0,
             at |-> state, decision_maker |-> None, next |-> 1]
  /\ memo' = <<>>
  /\ UNCHANGED <<state, dominance>>

\* find_optimal_line: what the loop does with the action best_action chose;
\* o is the record of the line so far
line_choice(s, o, actions, b) ==
  IF b.best_score = Raised
  THEN [state |-> s, memo |-> b.memo,
        out |-> [o EXCEPT !.status = "raised", !.at = s,
                          !.decision_maker = decision_maker(s)]]
  ELSE [state |-> actions[b.best].ns, memo |-> b.memo,
        out |-> [o EXCEPT !.depth = @ + 1,
                          !.attacks = IF actions[b.best].description[1] = "Attack"
                                      THEN @ + 1 ELSE @,
                          !.at = s,
                          !.decision_maker = decision_maker(s),
                          !.next = b.next + 1]]

line_actions(s, o, memo_, actions) ==
  IF actions = <<>>
  THEN [state |-> s, memo |-> memo_, out |-> [o EXCEPT !.status = "done"]]
  ELSE line_choice(s, o, actions,
                   best_action(actions, 1, decision_maker(s), memo_, o.depth, 0,
                               None, o.next))

\* one pass through the `while not state.game_over and depth < 100` loop
line_step(s, o, memo_) ==
  IF s.game_over \/ o.depth >= LineLimit
  THEN [state |-> s, memo |-> memo_, out |-> [o EXCEPT !.status = "done"]]
  ELSE IF s.phase = "combat_damage"
  THEN [state |-> solver_resolve_combat_damage(s), memo |-> memo_, out |-> o]
  ELSE IF s.phase = "end_turn"
  THEN [state |-> solver_end_turn(s), memo |-> memo_, out |-> o]
  ELSE line_actions(s, o, memo_, solver_get_available_actions(s))

LineTo(r) ==
  /\ state' = r.state
  /\ memo' = r.memo
  /\ out' = r.out

LineStep ==
  /\ out.op = "line"
  /\ out.status = "running"
  /\ LineTo(line_step(state, out, memo))
  /\ UNCHANGED dominance

NextSearch == SearchWalk \/ RunMinimax \/ RunSolve \/ StartLine \/ LineStep

SpecSearch == InitSearch /\ [][NextSearch]_vars

(***************************************************************************)
(* The searches: C1 to C6.                                                 *)
(***************************************************************************)
\* C1: the value minimax returns for the root equals the value of the
\* exhaustive search of the same tree (no window, no cutoffs, no tables).
C1_AlphaBetaEqualsExhaustive ==
  out.op = "minimax" => out.value = exhaustive(state, out.player, StartDepth)

\* the ways of using the tables: both, either one, none.  A table that is not
\* used is neither consulted nor filled.
Uses == [tt : BOOLEAN, dom : BOOLEAN]

search_value(s, player, oid) ==
  minimax(s, player, <<>>, StartDepth, -2, 2, <<>>, TablesOn, oid).value

\* s and r, two state objects, have the same transposition key for `player`
same_key(s, r, player) ==
  /\ ~signature_raises(s)
  /\ ~signature_raises(r)
  /\ <<signature(s, 1), s.phase, player>> = <<signature(r, 2), r.phase, player>>

decides(s) ==
  CASE s.phase \in {"main1", "combat_attack"} -> s.active_player
    [] s.phase = "combat_block" -> 1 - s.active_player

choice_node(s) ==
  /\ ~s.game_over
  /\ s.phase \in {"main1", "combat_attack", "combat_block"}
  /\ \A k \in DOMAIN solver_get_available_actions(s) :
        ~execute_raises(solver_get_available_actions(s)[k])

\* the search values of the states the actions of s lead to
child_values(s, player) ==
  {minimax(solver_get_available_actions(s)[k].ns, player, <<>>, StartDepth + 1,
           -2, 2, <<>>, TablesOn, 2).value :
     k \in DOMAIN solver_get_available_actions(s)}

\* C4: at a choice node the search returns the greatest of the values of the
\* node's actions when the player who decides there (the active player in
\* main1 and combat_attack, the defender in combat_block) is the perspective
\* player, and the least otherwise; find_optimal_line lets the same player
\* choose.
C4_DecisionMaker ==
  /\ (out.op = "minimax" /\ choice_node(state) /\ out.value # Raised
        /\ Raised \notin child_values(state, out.player))
       => out.value =
            IF decides(state) = out.player
            THEN CHOOSE v \in child_values(state, out.player) :
                   \A w \in child_values(state, out.player) : v >= w
            ELSE CHOOSE v \in child_values(state, out.player) :
                   \A w \in child_values(state, out.player) : v <= w
  /\ (out.op = "line" /\ out.decision_maker # None)
       => out.decision_maker = decides(out.at)

\* the defender, from whose perspective the search runs, has blocks of
\* different worth to choose from
C4_Witness ==
  /\ out.op = "minimax"
  /\ state.phase = "combat_block"
  /\ out.player = 1 - state.active_player
  /\ choice_node(state)
  /\ Cardinality(child_values(state, out.player)) > 1
  /\ Raised \notin child_values(state, out.player)

Outcomes == { <<1, "P1 Wins">>, <<-1, "P2 Wins">>, <<0, "Draw/Tie">> }

\* C5: solve() returns, and what it returns is one of the three outcomes.
C5_SolveReturnsOutcome == out.op = "solve" => out.result \in Outcomes

\* C6: with a land and a power-2 creature without haste against an empty
\* hand, solve() reports the win of the creature's owner.
C6_RaceWon ==
  (/\ out.op = "solve"
   /\ out.p1_hand = <<create_plains(0), Bear(0)>>
   /\ out.p2_hand = <<>>)
    => out.result = <<1, "P1 Wins">>

(***************************************************************************)
(* What the search leaves in its tables: C11 to C13.  The node minimax is  *)
(* called on is entered with each window of EntryWindows and with empty    *)
(* tables, and the tables are read when the call has returned.             *)
(***************************************************************************)
\* the windows alpha < beta over the values -2..2 of solver.py
EntryWindows == {w \in (-2..2) \X (-2..2) : w[1] < w[2]}

\* minimax(s, player, {}, depth, alpha, beta, {}) on the state object 1
entered(s, player, alpha, beta) ==
  minimax(s, player, <<>>, StartDepth, alpha, beta, <<>>, TablesOn, 1)

NoEntry == <<None, "none">>

\* memo[key] for the node the call was made on, when the call has returned;
\* NoEntry when the call raised or left nothing under the key
stored_entry(s, player, alpha, beta) ==
  IF entered(s, player, alpha, beta).value = Raised THEN NoEntry
  ELSE IF <<signature(s, 1), s.phase, player>>
            \notin DOMAIN entered(s, player, alpha, beta).memo THEN NoEntry
  ELSE entered(s, player, alpha, beta).memo[<<signature(s, 1), s.phase, player>>]

\* a node that iterates over actions
iterating_node(s) == choice_node(s) /\ solver_get_available_actions(s) # <<>>

\* C11: the kind stored for a node that iterates over its actions is the
\* kind of the returned value in the window the node was entered with:
\* upper if value <= original alpha, lower if value >= original beta, exact
\* otherwise; the narrowing of alpha and beta in the loop plays no part.
C11_KindFromEntryWindow ==
  (out.op = "minimax" /\ iterating_node(state)) =>
    \A w \in EntryWindows :
      stored_entry(state, out.player, w[1], w[2]) # NoEntry =>
        stored_entry(state, out.player, w[1], w[2])[2]
          = transposition_flag(stored_entry(state, out.player, w[1], w[2])[1],
                               w[1], w[2])

\* a node minimax passes through without a choice: combat_damage, end_turn,
\* or a choice phase that offers no action
automatic_node(s) ==
  /\ ~s.game_over
  /\ ~signature_raises(s)
  /\ \/ s.phase \in {"combat_damage", "end_turn"}
     \/ (solver_get_available_actions(s) = <<>> /\ no_action_phase(s) # "none")

\* the single successor of an automatic node
automatic_successor(s) ==
  IF s.phase = "combat_damage" THEN solver_resolve_combat_damage(s)
  ELSE IF s.phase = "end_turn" THEN solver_end_turn(s)
  ELSE [s EXCEPT !.phase = no_action_phase(s)]

\* the value of the successor of s in the maximal window
successor_value(s, player) ==
  minimax(automatic_successor(s), player, <<>>, StartDepth + 1, -2, 2, <<>>,
          TablesOn, 2).value

\* C12: whatever window an automatic node is entered with, its successor is
\* searched with the maximal window (-2, 2): the entry cached for the node
\* is the successor's value in that window, with the kind exact.
C12_AutomaticMaximalWindow ==
  (out.op = "minimax" /\ automatic_node(state)
     /\ successor_value(state, out.player) # Raised) =>
    \A w \in EntryWindows :
      stored_entry(state, out.player, w[1], w[2]) # NoEntry =>
        stored_entry(state, out.player, w[1], w[2])
          = <<successor_value(state, out.player), "exact">>

(***************************************************************************)
(* phases/: the automatic phases of the game, on a FullState.              *)
(***************************************************************************)
\* card.get_signature_state(), by class
get_signature_state(c) ==
  IF c.cls = "Land" THEN <<c.name, c.tapped, c.entered_this_turn>>
  ELSE IF c.cls = "HeartfireHero"
  THEN <<c.name, c.tapped, c.entered_this_turn, TRUE, c.attacking, c.damage,
         c.plus_counters, FALSE>>
  ELSE IF c.cls = "LuminarchAspirant"
  THEN <<c.name, c.tapped, c.entered_this_turn, TRUE, c.attacking, c.damage,
         c.plus_counters, c.combat_trigger_used>>
  ELSE IF isCreature(c)
  THEN <<c.name, c.tapped, c.entered_this_turn, TRUE, c.attacking, c.damage>>
  ELSE IF c.cls = "MentalMisstep" THEN <<c.name, c.target_spell_name>>
  ELSE <<c.name, c.tapped>>

zone_signature(zone) == sorted([i \in DOMAIN zone |-> get_signature_state(zone[i])])

\* upkeep's current_sig: no life total, no active player
stalemate_signature(ns) ==
  <<zone_signature(ns.battlefield[0]), zone_signature(ns.battlefield[1]),
    hand_signature(ns, 0), hand_signature(ns, 1),
    zone_signature(ns.artifacts[0]), zone_signature(ns.artifacts[1]),
    zone_signature(ns.enchantments[0]), zone_signature(ns.enchantments[1])>>

untap(s) ==
  [s EXCEPT !.battlefield[s.active_player] =
              [i \in DOMAIN @ |-> [@[i] EXCEPT !.tapped = FALSE,
                                               !.entered_this_turn = FALSE]],
            !.artifacts[s.active_player] =
              [i \in DOMAIN @ |-> [@[i] EXCEPT !.tapped = FALSE]],
            !.phase = "upkeep"]

AfflictionDamage == 3

\* cards/shrieking_affliction.py: ShriekingAffliction.on_opponent_upkeep;
\* Enchantment.on_opponent_upkeep returns the state
on_opponent_upkeep(card, s) ==
  LET opponent == s.active_player
      ns == [s EXCEPT !.life[opponent] = @ - AfflictionDamage]
  IN IF card.cls # "ShriekingAffliction" THEN s
     ELSE IF Len(s.hands[opponent]) <= 1
     THEN IF ns.life[opponent] <= 0
          THEN [ns EXCEPT !.game_over = TRUE, !.winner = card.owner]
          ELSE ns
     ELSE s

RECURSIVE opponent_triggers(_, _, _)
\* `for card in ns.enchantments[opponent]: ns = card.on_opponent_upkeep(ns)`
opponent_triggers(ns, cards, k) ==
  IF k > Len(cards) THEN ns
  ELSE opponent_triggers(on_opponent_upkeep(cards[k], ns), cards, k + 1)

\* the counter that always goes up
stale_count_up(prev_main_sig, current_sig, stale_turns) == stale_turns + 1

\* upkeep.py:53-56
stale_count(prev_main_sig, current_sig, stale_turns) ==
  IF prev_main_sig # NoSig /\ current_sig = prev_main_sig
  THEN stale_turns + 1
  ELSE 0

StaleLimit == 10

\* No modelled card has on_upkeep or auto_level.
upkeep(s) ==
  LET opponent == 1 - s.active_player
      ns1 == opponent_triggers(s, s.enchantments[opponent], 1)
      ns2 == IF ns1.life[ns1.active_player] <= 0
             THEN [ns1 EXCEPT !.game_over = TRUE, !.winner = opponent]
             ELSE ns1
      current_sig == stalemate_signature(ns2)
      ns3 == [ns2 EXCEPT !.stale_turns = stale_count(ns2.prev_main_sig, current_sig, @),
                         !.prev_main_sig = current_sig]
      ns4 == IF ns3.stale_turns >= StaleLimit
             THEN [ns3 EXCEPT !.game_over = TRUE, !.winner = None]
             ELSE ns3
  IN [ns4 EXCEPT !.phase = IF ns4.library[ns4.active_player] # <<>>
                           THEN "draw" ELSE "main1"]

draw(s) ==
  LET player == s.active_player
  IN IF s.turn = 1 /\ player = 0 THEN [s EXCEPT !.phase = "main1"]
     ELSE [s EXCEPT !.library[player] = Tail(@),
                    !.hands[player] = Append(@, Head(s.library[player])),
                    !.phase = "main1"]

end_turn(s) ==
  LET ap == s.active_player
      cleaned == [p \in Players |->
                    [i \in DOMAIN s.battlefield[p] |->
                       LET c == s.battlefield[p][i]
                       IN IF hasPower(c)
                          THEN [c EXCEPT !.attacking = IF p = ap THEN FALSE ELSE @,
                                         !.damage = 0]
                          ELSE c]]
  IN [s EXCEPT !.battlefield = cleaned,
               !.blocking_assignments = <<>>,
               !.active_player = 1 - ap,
               !.land_played_this_turn = FALSE,
               !.turn = @ + 1,
               !.phase = "untap"]

(***************************************************************************)
(* actions.py: get_available_actions, and the response actions of          *)
(* cards/mental_misstep.py.                                                *)
(***************************************************************************)
pass_to_combat(s) == [s EXCEPT !.phase = "combat_attack"]

_get_main_phase_actions(s, player) ==
  hand_actions(s, player, 1) \o << Action(<<"Pass to Combat">>, pass_to_combat(s)) >>

\* the order the subsets are generated in: `for r in range(len, -1, -1)`,
\* and itertools.combinations order within one size
combo_before(A, B) ==
  \/ Cardinality(A) > Cardinality(B)
  \/ /\ Cardinality(A) = Cardinality(B)
     /\ A # B
     /\ LET d == (A \ B) \cup (B \ A)
        IN (CHOOSE x \in d : \A y \in d : x <= y) \in A

RECURSIVE ordered_combos(_)
ordered_combos(S) ==
  IF S = {} THEN <<>>
  ELSE LET f == CHOOSE A \in S : \A B \in S \ {A} : combo_before(A, B)
       IN <<f>> \o ordered_combos(S \ {f})

\* every attack goes on to the damage step
attack_phase_damage(attacker_indices) == "combat_damage"

\* actions.py:116-119
attack_phase(attacker_indices) ==
  IF attacker_indices # {} THEN "combat_block" ELSE "end_turn"

make_attack_combo(s, attacker_indices) ==
  LET bf == s.battlefield[s.active_player]
      attack(c) == [c EXCEPT !.attacking = TRUE,
                             !.tapped = IF "vigilance" \in c.keywords
                                        THEN c.tapped ELSE TRUE]
  IN [s EXCEPT !.battlefield[s.active_player] =
                 [i \in DOMAIN bf |-> IF i \in attacker_indices
                                      THEN attack(bf[i]) ELSE bf[i]],
               !.phase = attack_phase(attacker_indices)]

_get_attack_actions(s) ==
  LET triggers == battlefield_actions(s, s.active_player, 1)
      combos == ordered_combos(SUBSET eligible_attackers(s))
  IN IF triggers # <<>> THEN triggers
     ELSE [k \in 1..Len(combos) |->
             Action(IF combos[k] # {} THEN <<"Attack with", combos[k]>>
                    ELSE <<"No Attack">>,
                    make_attack_combo(s, combos[k]))]

_get_block_actions(s) ==
  battlefield_actions(s, 1 - s.active_player, 1)
    \o block_list(s, block_pairs(s, FALSE), 1)
    \o << Action(<<"No Block">>, no_block(s)) >>

\* Card.get_mana_value: MentalMisstep's is 1, every modelled cost is one
\* coloured mana
get_mana_value(c) ==
  IF c.cls = "MentalMisstep" THEN 1 ELSE IF c.cost # "" THEN 1 ELSE 0

get_valid_targets(s) ==
  SeqOfSet({i \in DOMAIN s.stack : get_mana_value(s.stack[i]) = 1})

MisstepLife == 2

\* cast_with_mana / cast_with_life: the misstep leaves the hand for the stack
\* with its target; the phase stays response
cast_misstep(s, card, tgt_name, with_life) ==
  LET paid == IF with_life THEN [s EXCEPT !.life[card.owner] = @ - MisstepLife]
              ELSE pay_mana(s, card.owner, "U", 1)
      i == first_named(paid.hands[card.owner], card.name)
      misstep == [paid.hands[card.owner][i] EXCEPT !.target_spell_name = tgt_name]
  IN IF with_life /\ paid.life[card.owner] <= 0
     THEN [paid EXCEPT !.game_over = TRUE, !.winner = 1 - card.owner]
     ELSE [paid EXCEPT !.hands[card.owner] = RemoveAt(@, i),
                       !.stack = Append(@, misstep)]

RECURSIVE misstep_actions(_, _, _, _)
\* `for target in targets`: the mana option, then the life option
misstep_actions(card, s, targets, k) ==
  IF k > Len(targets) THEN <<>>
  ELSE LET tgt_name == s.stack[targets[k]].name
       IN (IF get_available_mana_by_color(s, card.owner, "U") >= 1
           THEN << Action(<<"Cast Mental Misstep (pay U)", tgt_name>>,
                          cast_misstep(s, card, tgt_name, FALSE)) >>
           ELSE <<>>)
          \o (IF s.life[card.owner] > MisstepLife
              THEN << Action(<<"Cast Mental Misstep (pay 2 life)", tgt_name>>,
                             cast_misstep(s, card, tgt_name, TRUE)) >>
              ELSE <<>>)
          \o misstep_actions(card, s, targets, k + 1)

\* card.get_response_actions(state): MentalMisstep's; Card's is empty
get_response_actions(card, s) ==
  IF card.cls # "MentalMisstep" THEN <<>>
  ELSE IF s.phase # "response" THEN <<>>
  ELSE IF s.stack = <<>> THEN <<>>
  ELSE IF card.owner = s.stack[Len(s.stack)].owner THEN <<>>
  ELSE IF get_valid_targets(s) = <<>> THEN <<>>
  ELSE misstep_actions(card, s, get_valid_targets(s), 1)

RECURSIVE responder_actions(_, _, _)
responder_actions(s, responder, k) ==
  IF k > Len(s.hands[responder]) THEN <<>>
  ELSE get_response_actions(s.hands[responder][k], s)
         \o responder_actions(s, responder, k + 1)

\* MentalMisstep.resolve: the first spell of the stack with the target's name
\* is countered
misstep_resolve(spell, s) ==
  LET hits == {i \in DOMAIN s.stack : s.stack[i].name = spell.target_spell_name}
      i == CHOOSE x \in hits : \A y \in hits : x <= y
  IN IF spell.target_spell_name = "" \/ hits = {} THEN s
     ELSE [s EXCEPT !.stack = RemoveAt(@, i),
                    !.graveyard[s.stack[i].owner] = Append(@, s.stack[i])]

\* spell.resolve(ns), by class
spell_resolve(spell, s) ==
  IF spell.cls = "MentalMisstep" THEN misstep_resolve(spell, s)
  ELSE resolve(spell, s)

\* `spell not in ns.graveyard[spell.owner]` compares objects: the spell just
\* popped is never one of the copies the graveyard holds, so it is appended.
pass_priority(s) ==
  LET spell == s.stack[Len(s.stack)]
      popped == [s EXCEPT !.stack = SubSeq(@, 1, Len(@) - 1)]
      resolved == spell_resolve(spell, popped)
      ns == IF s.stack # <<>>
            THEN [resolved EXCEPT !.graveyard[spell.owner] = Append(@, spell)]
            ELSE s
  IN IF ns.stack = <<>> THEN [ns EXCEPT !.phase = "main1"] ELSE ns

_get_response_actions(s) ==
  responder_actions(s, 1 - s.active_player, 1)
    \o << Action(<<"Pass (resolve spell)">>, pass_priority(s)) >>

get_available_actions(s) ==
  IF s.phase = "main1" THEN _get_main_phase_actions(s, s.active_player)
  ELSE IF s.phase = "combat_attack" THEN _get_attack_actions(s)
  ELSE IF s.phase = "combat_block" THEN _get_block_actions(s)
  ELSE IF s.phase = "response" THEN _get_response_actions(s)
  ELSE <<>>

(***************************************************************************)
(* The game: the loop that drives a state through its phases (cli.py), the *)
(* automatic phases by their handlers and the choice phases by any one of  *)
(* the available actions.  It stops at game_over.                          *)
(***************************************************************************)
\* the starting life of the games played here
GameLife == 3

\* the turn after which no new turn is started
GameMaxTurn == 12

GameRoot(life, hands, library, battlefield) ==
  FullState(life, hands, library, battlefield, 0, "untap", 1)

Both(x, y) == [p \in Players |-> IF p = 0 THEN x ELSE y]

GameRoots ==
  { GameRoot(Both(GameLife, GameLife), NoCards, NoCards, NoCards),
    GameRoot(Both(GameLife, GameLife),
             Both(<<Swamp(0), ShriekingAffliction(0)>>, <<>>),
             NoCards, NoCards),
    GameRoot(Both(GameLife, GameLife), NoCards, NoCards,
             Both(<<Bear(0)>>, <<HeartfireHero(1)>>)),
    GameRoot(Both(1, GameLife), NoCards, NoCards,
             Both(<<Bear(0)>>, <<HeartfireHero(1)>>)),
    GameRoot(Both(GameLife, GameLife),
             Both(<<create_plains(0), Bear(0)>>, <<MentalMisstep(1)>>),
             Both(<<>>, <<create_forest(1)>>), NoCards),
    GameRoot(Both(GameLife, GameLife),
             Both(<<create_mountain(0), HeartfireHero(0)>>, <<>>),
             Both(<<create_mountain(0)>>, <<>>),
             Both(<<>>, <<DragonSniper(1)>>)) }

Init ==
  /\ state \in GameRoots
  /\ memo = <<>>
  /\ dominance = <<>>
  /\ out = [op |-> "start"]

Step(op, ns) ==
  /\ ~state.game_over
  /\ state' = ns
  /\ out' = [op |-> op]
  /\ UNCHANGED <<memo, dominance>>

Untap == state.phase = "untap" /\ Step("untap", untap(state))

Upkeep == state.phase = "upkeep" /\ Step("upkeep", upkeep(state))

Draw == state.phase = "draw" /\ Step("draw", draw(state))

CombatDamage ==
  state.phase = "combat_damage" /\ Step("combat_damage", resolve_combat_damage(state))

EndTurn ==
  /\ state.phase = "end_turn"
  /\ state.turn < GameMaxTurn
  /\ Step("end_turn", end_turn(state))

TakeAction ==
  /\ ~state.game_over
  /\ \E k \in DOMAIN get_available_actions(state) :
        /\ state' = get_available_actions(state)[k].ns
        /\ out' = [op |-> "action",
                   description |-> get_available_actions(state)[k].description]
  /\ UNCHANGED <<memo, dominance>>

Next == Untap \/ Upkeep \/ Draw \/ TakeAction \/ CombatDamage \/ EndTurn

Spec == Init /\ [][Next]_vars

(***************************************************************************)
(* The game: C7 to C9                                                      *)
(***************************************************************************)
\* the successor of a phase in the order of the turn
PhaseSuccessor(phase) ==
  CASE phase = "untap" -> "upkeep"
    [] phase = "upkeep" -> "draw"
    [] phase = "draw" -> "main1"
    [] phase = "main1" -> "combat_attack"
    [] phase = "combat_attack" -> "combat_block"
    [] phase = "combat_block" -> "combat_damage"
    [] phase = "combat_damage" -> "end_turn"
    [] phase = "end_turn" -> "untap"
    [] OTHER -> "none"

\* a step along the order of the turn: to the successor phase, Draw entered
\* only with a library to draw from and left out without one, and EndTurn
\* followed by the other player's Untap
InOrder(s, t) ==
  \/ /\ t.phase = PhaseSuccessor(s.phase)
     /\ t.phase = "draw" => t.library[t.active_player] # <<>>
     /\ t.phase = "untap" => t.active_player = 1 - s.active_player
     /\ t.phase # "untap" => t.active_player = s.active_player
  \/ /\ s.phase = "upkeep"
     /\ t.phase = "main1"
     /\ t.library[t.active_player] = <<>>
     /\ t.active_player = s.active_player

NumKeys == 2

\* the widest window bound: minimax starts with (-2, 2)
MaxWindow == 2

TableKeys == 1..NumKeys

Values == -1..1

Windows == (0 - MaxWindow)..MaxWindow

InitTable ==
  /\ state = NoCards
  /\ memo = <<>>
  /\ dominance = <<>>
  /\ out = [op |-> "start"]

StoreTransposition ==
  \E key \in TableKeys, value \in Values, original_alpha \in Windows, beta \in Windows :
     /\ memo' = store_transposition(memo, key, value, original_alpha, beta)
     /\ out' = [op |-> "store", key |-> key]
     /\ UNCHANGED <<state, dominance>>

LookupTransposition ==
  \E key \in TableKeys, alpha \in Windows, beta \in Windows :
     /\ out' = [op |-> "lookup", key |-> key, alpha |-> alpha, beta |-> beta,
                value |-> lookup_transposition(memo, key, alpha, beta)]
     /\ UNCHANGED <<state, memo, dominance>>

NextTable == StoreTransposition \/ LookupTransposition

SpecTable == InitTable /\ [][NextTable]_vars

(***************************************************************************)
(* The tables: C10                                                         *)
(***************************************************************************)
\* C10: a lookup with window (alpha, beta) returns the stored value when the
\* entry is exact, or a lower bound with beta <= the stored value, or an upper
\* bound with alpha >= the stored value; in every other case, an absent key
\* among them, it returns the miss.
C10_LookupRule ==
  out.op = "lookup" =>
    LET usable ==
          /\ out.key \in DOMAIN memo
          /\ \/ memo[out.key][2] = "exact"
             \/ memo[out.key][2] = "lower" /\ out.beta <= memo[out.key][1]
             \/ memo[out.key][2] = "upper" /\ out.alpha >= memo[out.key][1]
    IN IF usable THEN out.value = memo[out.key][1] ELSE out.value = None

\* a lower bound was looked up with beta equal to the stored value, and used
C10_Witness ==
  /\ out.op = "lookup"
  /\ out.key \in DOMAIN memo
  /\ memo[out.key][2] = "lower"
  /\ out.beta = memo[out.key][1]
  /\ out.value = memo[out.key][1]

(***************************************************************************)
(* The dominance table on its own.  A node of the search stores its result *)
(* as the end of minimax does, for any board, life totals, perspective,    *)
(* value and window; the table is queried for any life totals.  board      *)
(* stands for the pair of board_signature and phase.                       *)
(***************************************************************************)
\* the boards the nodes have
NumBoards == 1

\* the nodes the transposition table may hold
MaxStored == 2

\* the triples the dominance table may hold under one key
MaxTriples == 2

BoardKeys == 1..NumBoards

Lives == [Players -> 1..MaxLife]

\* the alphas a node is entered with and the betas its loop leaves it with:
\* the maximal window and the narrowest bounds among the values
EnteredAlphas == {0 - MaxWindow, 0}

LeftBetas == {0, MaxWindow}

InitDominance ==
  /\ state = NoCards
  /\ memo = <<>>
  /\ dominance = <<>>
  /\ out = [op |-> "start"]

\* the triples stored under board_key
triples(table, board_key) ==
  IF board_key \in DOMAIN table THEN table[board_key] ELSE <<>>

\* the store at the end of minimax, for a node of the board with the life
\* totals life, searched for player: the result best_score, the alpha the
\* node was entered with and the beta the loop has left
store_result(board, life, player, best_score, original_alpha, beta) ==
  [memo |-> store_transposition(memo, <<board, life, player>>, best_score,
                                original_alpha, beta),
   dominance |-> dominance_after(dominance, <<board, player>>, life, player,
                                 best_score,
                                 transposition_flag(best_score, original_alpha, beta)),
   out |-> [op |-> "store", board |-> board, life |-> life, player |-> player,
            value |-> best_score,
            flag |-> transposition_flag(best_score, original_alpha, beta)]]

StoreTo(r) ==
  /\ memo' = r.memo
  /\ dominance' = r.dominance
  /\ out' = r.out

StoreResult ==
  \E board \in BoardKeys, life \in Lives, player \in Players, value \in Values,
     original_alpha \in EnteredAlphas, beta \in LeftBetas :
     /\ \/ <<board, life, player>> \in DOMAIN memo
        \/ Cardinality(DOMAIN memo) < MaxStored
     /\ Len(triples(dominance, <<board, player>>)) < MaxTriples
     /\ StoreTo(store_result(board, life, player, value, original_alpha, beta))
     /\ UNCHANGED state

\* check_dominance(dominance, board_key, life, player)
CheckDominance ==
  \E board \in BoardKeys, life \in Lives, player \in Players :
     /\ out' = [op |-> "check", board |-> board, life |-> life, player |-> player,
                value |-> check_dominance(dominance, <<board, player>>, life, player)]
     /\ UNCHANGED <<state, memo, dominance>>

NextDominance == StoreResult \/ CheckDominance

SpecDominance == InitDominance /\ [][NextDominance]_vars

loss_stored(es, my_life, opp_life) ==
  \E i \in DOMAIN es :
    es[i][3] = -1 /\ es[i][1] >= my_life /\ es[i][2] <= opp_life

\* among the triples es, a win stored with at most my_life for the player and
\* at least opp_life for the opponent
win_stored(es, my_life, opp_life) ==
  \E i \in DOMAIN es :
    es[i][3] = 1 /\ es[i][1] <= my_life /\ es[i][2] >= opp_life

\* what the claim has the query return for its two cases; a table that holds
\* both a loss and a win of this kind may answer with either
query_rule(value, loss, win) ==
  /\ (loss /\ ~win) => value = -1
  /\ (win /\ ~loss) => value = 1
  /\ (loss /\ win) => value \in {-1, 1}
  /\ (~loss /\ ~win) => value = None

MaxZone == 6

\* the identities one copy may use: 13 zone lists
IdSpan == 13 * MaxZone

CardZones ==
  <<"hands", "battlefield", "artifacts", "graveyard", "library", "enchantments">>

\* card.copy(): a new object with the fields of the card
card_copy(card, id) == [id |-> id] @@ card

\* [c.copy() for c in cards]
zone_copy(cards, first) ==
  [i \in DOMAIN cards |-> card_copy(cards[i], first + i)]

\* the state s as new objects throughout: a new state, new zone lists and a
\* new card for every card; base is where the identities not in use begin
objects(s, base) ==
  [obj |-> base] @@
  [z \in DOMAIN s |->
     IF \E n \in DOMAIN CardZones : CardZones[n] = z
     THEN LET n == CHOOSE m \in DOMAIN CardZones : CardZones[m] = z
          IN [p \in Players |->
                zone_copy(s[z][p], base + (2 * (n - 1) + p) * MaxZone)]
     ELSE IF z = "stack" THEN zone_copy(s[z], base + 12 * MaxZone)
     ELSE s[z]]

\* a copy that makes a new state and new zone lists around the same cards
copy_shallow(s, base) == [obj |-> base] @@ s

\* GameState.copy
copy(s, base) == objects(s, base)

\* the card objects a state holds
all_cards(s) ==
  UNION {Range(s[CardZones[n]][p]) : n \in DOMAIN CardZones, p \in Players}
    \cup Range(s.stack)

ids_of(s) == {c.id : c \in all_cards(s)}

\* the phases with one successor and no choice
AutomaticPhases == {"untap", "upkeep", "draw", "combat_damage", "end_turn"}

\* the phase handler of the phase s is in, called on the object s
transform(s, base) ==
  CASE s.phase = "untap" -> untap(copy(s, base))
    [] s.phase = "upkeep" -> upkeep(copy(s, base))
    [] s.phase = "draw" -> draw(copy(s, base))
    [] s.phase = "combat_damage" -> resolve_combat_damage(copy(s, base))
    [] s.phase = "end_turn" -> end_turn(copy(s, base))

\* action.execute(s) for the k-th action of s; the closure copies s
execute(s, k, base) == get_available_actions(copy(s, base))[k].ns

\* the card object `card` of the input when the calls have returned results
seen(card, results) ==
  IF \E i \in DOMAIN results : card.id \in ids_of(results[i])
  THEN CHOOSE c \in UNION {all_cards(results[i]) : i \in DOMAIN results} :
         c.id = card.id
  ELSE card

\* the input object s when the calls have returned results
input_after(s, results) ==
  [z \in DOMAIN s |->
     IF \E n \in DOMAIN CardZones : CardZones[n] = z
     THEN [p \in Players |->
             [i \in DOMAIN s[z][p] |-> seen(s[z][p][i], results)]]
     ELSE IF z = "stack" THEN [i \in DOMAIN s[z] |-> seen(s[z][i], results)]
     ELSE s[z]]

InitObjects ==
  /\ state \in {objects(r, 0) : r \in GameRoots}
  /\ memo = <<>>
  /\ dominance = <<>>
  /\ out = [op |-> "start"]

\* what a driver sees of the calls it made on state: the results, and its
\* own object afterwards
Called(op, results) ==
  out' = [op |-> op, input |-> state, results |-> results,
          input_after |-> input_after(state, results)]

\* every action of the state is executed, and the game goes on with one of
\* the results; its objects are numbered anew
ExecuteActions ==
  /\ ~state.game_over
  /\ state.phase \notin AutomaticPhases
  /\ \E k \in DOMAIN get_available_actions(state) :
       state' = objects(execute(state, k, k * IdSpan), 0)
  /\ Called("execute", [k \in DOMAIN get_available_actions(state) |->
                           execute(state, k, k * IdSpan)])
  /\ UNCHANGED <<memo, dominance>>

\* the phase handler of an automatic phase is called
TransformPhase ==
  /\ ~state.game_over
  /\ state.phase \in AutomaticPhases
  /\ state.phase = "end_turn" => state.turn < GameMaxTurn
  /\ state' = objects(transform(state, IdSpan), 0)
  /\ Called("transform", <<transform(state, IdSpan)>>)
  /\ UNCHANGED <<memo, dominance>>

NextObjects == ExecuteActions \/ TransformPhase

SpecObjects == InitObjects /\ [][NextObjects]_vars

MaxPower == 4

CombatKeywords == {"first_strike", "double_strike", "deathtouch"}

Attackers ==
  {[Creature("Attacker", 0, pw, tn, "W", kw) EXCEPT !.attacking = TRUE,
                                                    !.tapped = TRUE] :
     pw \in 0..(MaxPower - 1), tn \in 1..2, kw \in SUBSET CombatKeywords}

Blockers ==
  {Creature("Blocker", 1, pw, tn, "G", kw) :
     pw \in (0..MaxPower) \cup {10}, tn \in (1..MaxPower) \cup {10},
     kw \in {{}, {"deathtouch"}}}

\* GameState(battlefield=[[attacker], [blocker]], blocking_assignments={0: 0}
\* or {}, phase="combat_damage", active_player=0)
combat_state(attacker, blocker, blocked) ==
  [GameState(Both(GameLife, GameLife), NoCards, Both(<<attacker>>, <<blocker>>),
             0, "combat_damage", 1)
     EXCEPT !.blocking_assignments = IF blocked THEN <<1>> ELSE <<>>]

InitCombat ==
  /\ state \in {combat_state(a, b, blocked) :
                  a \in Attackers, b \in Blockers, blocked \in BOOLEAN}
  /\ memo = <<>>
  /\ dominance = <<>>
  /\ out = [op |-> "start"]

\* resolve_combat_damage(state)
ResolveCombat ==
  /\ state.phase = "combat_damage"
  /\ state' = resolve_combat_damage(state)
  /\ out' = [op |-> "resolve_combat_damage", before |-> state]
  /\ UNCHANGED <<memo, dominance>>

\* is_lethal_damage(damage, toughness, attacker_has_deathtouch)
TestLethal ==
  /\ out.op = "start"
  /\ \E damage \in 0..MaxPower, toughness \in 0..MaxPower, deathtouch \in BOOLEAN :
       out' = [op |-> "is_lethal_damage", damage |-> damage,
               toughness |-> toughness, deathtouch |-> deathtouch,
               value |-> is_lethal_damage(damage, toughness, deathtouch)]
  /\ UNCHANGED <<state, memo, dominance>>

NextCombat == ResolveCombat \/ TestLethal

SpecCombat == InitCombat /\ [][NextCombat]_vars

(***************************************************************************)
(* Combat: C16 to C19                                                      *)
(***************************************************************************)
\* C16: for damage and toughness not below 0 and either flag, the lethality
\* test is true exactly when (deathtouch and damage > 0) or damage >=
\* toughness.
C16_LethalityLaw ==
  out.op = "is_lethal_damage" =>
    (out.value = TRUE) <=>
      ((out.deathtouch /\ out.damage > 0) \/ out.damage >= out.toughness)

\* one point of deathtouch damage has been found lethal for a greater
\* toughness, and no damage from a deathtouch source is not
C16_Witness ==
  /\ out.op = "is_lethal_damage"
  /\ out.deathtouch
  /\ out.damage = 1
  /\ out.toughness > 1
  /\ out.value = TRUE

\* the combat that has been resolved was of a blocked attacker
fought == out.op = "resolve_combat_damage" /\ out.before.blocking_assignments # <<>>

\* the attacker and the blocker as they went into the combat
attacker_before == out.before.battlefield[0][1]

blocker_before == out.before.battlefield[1][1]

\* player p's creature left the battlefield in the combat
died(p) == state.battlefield[p] = <<>>

\* player p's creature after the combat: on the battlefield, or the card the
\* combat put on the graveyard
fighter(p) ==
  IF died(p) THEN state.graveyard[p][Len(state.graveyard[p])]
  ELSE state.battlefield[p][1]

strikes_first(card) == "first_strike" \in card.keywords

strikes_twice(card) == "double_strike" \in card.keywords

touch_of_death(card) == "deathtouch" \in card.keywords

\* damage dealt by source is lethal for a creature of this toughness
kills(source, damage, toughness) ==
  damage >= toughness \/ (touch_of_death(source) /\ damage > 0)

\* C17: an attacker with first strike and without double strike, blocked by
\* a creature with neither, deals its power to the blocker once, in the
\* first pass; the blocker deals its power to the attacker in the regular
\* pass unless the first pass killed it.  A 3/2 first striker blocked by a
\* vanilla 4/4 dies, and the 4/4 stays with 3 damage.
C17_FirstStrike ==
  (/\ fought
   /\ strikes_first(attacker_before) /\ ~strikes_twice(attacker_before)
   /\ ~strikes_first(blocker_before) /\ ~strikes_twice(blocker_before)) =>
    /\ fighter(1).damage = attacker_before.power
    /\ fighter(0).damage =
         IF kills(attacker_before, attacker_before.power, blocker_before.toughness)
         THEN 0 ELSE blocker_before.power
    /\ (/\ attacker_before.power = 3 /\ attacker_before.toughness = 2
        /\ attacker_before.keywords = {"first_strike"}
        /\ blocker_before.power = 4 /\ blocker_before.toughness = 4
        /\ blocker_before.keywords = {})
       => (died(0) /\ ~died(1) /\ state.battlefield[1][1].damage = 3)

\* the 3/2 first striker has fought the vanilla 4/4
C17_Witness ==
  /\ fought
  /\ attacker_before.power = 3 /\ attacker_before.toughness = 2
  /\ attacker_before.keywords = {"first_strike"}
  /\ blocker_before.power = 4 /\ blocker_before.toughness = 4
  /\ blocker_before.keywords = {}
  /\ state.graveyard[0] # <<>>

\* C18: a blocked attacker with double strike deals its power to its
\* blocker in the first pass and again in the regular pass; a blocker that
\* strikes neither first nor twice deals its power in the regular pass only
\* (and not at all when it is dead by then).  A 2/2 double striker blocked
\* by a vanilla 3/3 marks 4 damage on it and takes 3, and both leave the
\* battlefield.
C18_DoubleStrike ==
  (/\ fought
   /\ strikes_twice(attacker_before)
   /\ ~strikes_first(blocker_before) /\ ~strikes_twice(blocker_before)) =>
    /\ fighter(1).damage = 2 * attacker_before.power
    /\ fighter(0).damage \in {0, blocker_before.power}
    /\ (/\ attacker_before.power = 2 /\ attacker_before.toughness = 2
        /\ attacker_before.keywords = {"double_strike"}
        /\ blocker_before.power = 3 /\ blocker_before.toughness = 3
        /\ blocker_before.keywords = {})
       => (died(0) /\ died(1) /\ fighter(1).damage = 4 /\ fighter(0).damage = 3)

\* C19: when neither creature strikes first or twice, the blocked attacker
\* and its blocker deal their power to each other in the one regular pass,
\* and a creature dies exactly when that damage reaches its toughness or is
\* positive and from a deathtouch source.  A 1/1 deathtouch attacker and the
\* vanilla 10/10 that blocks it both die.
C19_Simultaneous ==
  (/\ fought
   /\ ~strikes_first(attacker_before) /\ ~strikes_twice(attacker_before)
   /\ ~strikes_first(blocker_before) /\ ~strikes_twice(blocker_before)) =>
    /\ fighter(1).damage = attacker_before.power
    /\ fighter(0).damage = blocker_before.power
    /\ died(1) <=> kills(attacker_before, attacker_before.power,
                         blocker_before.toughness)
    /\ died(0) <=> kills(blocker_before, blocker_before.power,
                         attacker_before.toughness)
    /\ (/\ attacker_before.power = 1 /\ attacker_before.toughness = 1
        /\ attacker_before.keywords = {"deathtouch"}
        /\ blocker_before.power = 10 /\ blocker_before.toughness = 10
        /\ blocker_before.keywords = {})
       => (died(0) /\ died(1))

\* the 1/1 with deathtouch has fought the vanilla 10/10, and both are in the
\* graveyards
C19_Witness ==
  /\ fought
  /\ attacker_before.power = 1 /\ attacker_before.toughness = 1
  /\ attacker_before.keywords = {"deathtouch"}
  /\ blocker_before.power = 10 /\ blocker_before.toughness = 10
  /\ blocker_before.keywords = {}
  /\ state.graveyard[0] # <<>>
  /\ state.graveyard[1] # <<>>

(***************************************************************************)
(* heuristics.py: the early heuristic for grinding games.  Of the modelled *)
(* card classes only DragonSniper has a has_deathtouch attribute, none has *)
(* has_first_strike, has_double_strike or level, and HeartfireHero has     *)
(* plus_counters and current_power.                                        *)
(***************************************************************************)
\* if depth <= 15: return None
EarlyDepth == 15

\* any(c.name == 'Thallid' for c in battlefield)
has_token_generator(battlefield) ==
  \E i \in DOMAIN battlefield : battlefield[i].name = "Thallid"

can_grow(creatures) ==
  \E i \in DOMAIN creatures :
    \/ has_plus_counters(creatures[i])
    \/ creatures[i].name = "Stromkirk Noble"

\* [c for c in battlefield if hasattr(c, 'power') and c.power > 0]
get_creatures(battlefield) ==
  SelectSeq(battlefield, LAMBDA c : hasPower(c) /\ c.power > 0)

\* hasattr(c, 'has_deathtouch') and c.has_deathtouch
deathtouch_attribute(c) == c.cls = "DragonSniper"

\* _creatures_are_symmetric's creature_sig:
\* getattr(c, 'current_power', None) or getattr(c, 'power', 0), and the same
\* for toughness; the three ability attributes
symmetry_sig(c) ==
  << IF has_plus_counters(c) /\ current_power(c) # 0
     THEN current_power(c) ELSE c.power,
     IF has_plus_counters(c) /\ current_toughness(c) # 0
     THEN current_toughness(c) ELSE c.toughness,
     deathtouch_attribute(c), FALSE, FALSE >>

\* sorted(sig(c) for c in creatures), as the number of creatures of each
\* signature
sorted_sigs(creatures) ==
  [x \in {symmetry_sig(creatures[i]) : i \in DOMAIN creatures} |->
     Cardinality({i \in DOMAIN creatures : symmetry_sig(creatures[i]) = x})]

creatures_are_symmetric(p1_creatures, p2_creatures) ==
  IF Len(p1_creatures) # Len(p2_creatures) THEN FALSE
  ELSE IF p1_creatures = <<>> THEN FALSE
  ELSE sorted_sigs(p1_creatures) = sorted_sigs(p2_creatures)

is_combat_stalemate(p1_creatures, p2_creatures) ==
  IF p1_creatures = <<>> \/ p2_creatures = <<>> THEN FALSE
  ELSE LET p1_deathtouch == SelectSeq(p1_creatures, deathtouch_attribute)
           p2_deathtouch == SelectSeq(p2_creatures, deathtouch_attribute)
       IN  IF /\ p1_deathtouch # <<>>
              /\ p2_deathtouch # <<>>
              /\ Len(p1_deathtouch) = Len(p2_deathtouch)
           THEN TRUE
           ELSE creatures_are_symmetric(p1_creatures, p2_creatures)

evaluate_early_grinding(s, player, depth) ==
  IF depth <= EarlyDepth THEN None
  ELSE IF s.hands[0] # <<>> \/ s.hands[1] # <<>> THEN None
  ELSE LET p1_creatures == get_creatures(s.battlefield[0])
           p2_creatures == get_creatures(s.battlefield[1])
           p1_token_gen == has_token_generator(s.battlefield[0])
           p2_token_gen == has_token_generator(s.battlefield[1])
           p1_grows == can_grow(p1_creatures)
           p2_grows == can_grow(p2_creatures)
       IN  IF /\ ~p1_grows
              /\ ~p2_grows
              /\ is_combat_stalemate(p1_creatures, p2_creatures)
           THEN 0
           ELSE IF p2_token_gen /\ ~p1_token_gen /\ ~p1_grows /\ p1_creatures # <<>>
           THEN (IF player = 1 THEN 1 ELSE -1)
           ELSE IF p1_token_gen /\ ~p2_token_gen /\ ~p2_grows /\ p2_creatures # <<>>
           THEN (IF player = 0 THEN 1 ELSE -1)
           ELSE None

\* the most cards on one side of the battlefield
MaxBoard == 2

\* the cards a side can have on the battlefield: vanilla creatures, the two
\* ways of having deathtouch (DragonSniper and a keyword), a first striker
\* (cards/keldon_halberdier.py gives the keyword only), a creature that
\* grows, a token generator, a creature without power and a land
GrindCards(owner) ==
  {Bear(owner), DragonSniper(owner), HeartfireHero(owner),
   Creature("Archer", owner, 1, 1, "G", {"deathtouch"}),
   Creature("Keldon Halberdier", owner, 4, 1, "R", {"first_strike"}),
   Creature("Thallid", owner, 1, 1, "G", {}),
   Creature("Wall", owner, 0, 3, "W", {}),
   create_forest(owner)}

GrindBoards(owner) ==
  UNION {[1..n -> GrindCards(owner)] : n \in 0..MaxBoard}

InitHeuristic ==
  /\ state \in {GameState(Both(GameLife, GameLife), Both(hand, <<>>),
                          Both(b0, b1), 0, "main1", 1) :
                  hand \in {<<>>, <<create_forest(0)>>},
                  b0 \in GrindBoards(0), b1 \in GrindBoards(1)}
  /\ memo = <<>>
  /\ dominance = <<>>
  /\ out = [op |-> "start"]

\* evaluate_early_grinding(state, player, depth)
EvaluateEarlyGrinding ==
  /\ \E player \in Players, depth \in {EarlyDepth, EarlyDepth + 1} :
       out' = [op |-> "evaluate_early_grinding", player |-> player,
               depth |-> depth,
               value |-> evaluate_early_grinding(state, player, depth)]
  /\ UNCHANGED <<state, memo, dominance>>

NextHeuristic == EvaluateEarlyGrinding

SpecHeuristic == InitHeuristic /\ [][NextHeuristic]_vars

\* what a creature is in combat: helpers.py's power, toughness, deathtouch,
\* first strike and double strike
combat_profile(c) ==
  <<get_creature_power(c), get_creature_toughness(c), has_deathtouch(c),
    has_first_strike(c), has_double_strike(c)>>

\* the multiset of the combat profiles of some creatures
profiles(creatures) ==
  [x \in {combat_profile(creatures[i]) : i \in DOMAIN creatures} |->
     Cardinality({i \in DOMAIN creatures : combat_profile(creatures[i]) = x})]

\* the creatures of the two sides have equal multisets of combat profiles
combat_symmetric(s) ==
  profiles(get_creatures(s.battlefield[0])) = profiles(get_creatures(s.battlefield[1]))

\* C20: past depth 15, with both hands empty, when the two sides have
\* creatures, their creature sets are combat-symmetric and neither side can
\* grow, the early heuristic returns draw (0) for either perspective.
C20_SymmetricDraw ==
  (/\ out.op = "evaluate_early_grinding"
   /\ out.depth > EarlyDepth
   /\ state.hands[0] = <<>> /\ state.hands[1] = <<>>
   /\ get_creatures(state.battlefield[0]) # <<>>
   /\ combat_symmetric(state)
   /\ ~can_grow(get_creatures(state.battlefield[0]))
   /\ ~can_grow(get_creatures(state.battlefield[1]))) =>
    out.value = 0

(***************************************************************************)
(* Games with a counterspell in each hand: player 0 has a land, a creature *)
(* spell and a Mental Misstep, player 1 a Mental Misstep.                  *)
(***************************************************************************)
ResponseRoots ==
  { GameRoot(life,
             Both(<<create_plains(0), Bear(0), MentalMisstep(0)>>, hand1),
             Both(<<>>, <<create_forest(1)>>), NoCards) :
      life \in [Players -> 1..GameLife],
      hand1 \in {<<MentalMisstep(1)>>, <<MentalMisstep(1), MentalMisstep(1)>>} }

InitResponse ==
  /\ state \in ResponseRoots
  /\ memo = <<>>
  /\ dominance = <<>>
  /\ out = [op |-> "start"]

SpecResponse == InitResponse /\ [][Next]_vars

\* C21: in the response phase the actions offered are the response actions
\* of the opponent of the owner of the top spell of the stack, and the pass;
\* so the caster of a spell answers the counterspell put on top of it.
C21_ResponderFacesTopSpell ==
  (state.phase = "response" /\ state.stack # <<>> /\ ~state.game_over) =>
    get_available_actions(state) =
      responder_actions(state, 1 - state.stack[Len(state.stack)].owner, 1)
        \o << Action(<<"Pass (resolve spell)">>, pass_priority(state)) >>

(***************************************************************************)
(* Games with libraries, started by either player (solve's first_player).  *)
(***************************************************************************)
DrawRoots ==
  { FullState(life, NoCards,
              Both(<<create_forest(0), create_plains(0)>>, library1),
              battlefield, first_player, "untap", 1) :
      life \in [Players -> 1..GameLife],
      library1 \in {<<create_forest(1)>>, <<create_forest(1), Swamp(1)>>},
      battlefield \in {NoCards, Both(<<Bear(0)>>, <<Bear(1)>>)},
      first_player \in Players }

InitDraw ==
  /\ state \in DrawRoots
  /\ memo = <<>>
  /\ dominance = <<>>
  /\ out = [op |-> "start"]

SpecDraw == InitDraw /\ [][Next]_vars

C23_BlockedDealsNoPlayerDamage ==
  fought => state.life = out.before.life

(***************************************************************************)
(* The transposition entries of kind exact: C24                            *)
(***************************************************************************)
\* C24: whatever window the node is entered with, an entry that the call
\* leaves for it with the kind exact holds the value of the exhaustive
\* search of the node, where that search has a value.
C24_ExactIsTrueValue ==
  out.op = "minimax" =>
    \A w \in EntryWindows :
      stored_entry(state, out.player, w[1], w[2])[2] = "exact" =>
        exhaustive(state, out.player, StartDepth)
          \in {stored_entry(state, out.player, w[1], w[2])[1], Raised}

(***************************************************************************)
(* Combats of two attackers against one creature that blocks the first of  *)
(* them, the second, or neither, resolved by combat.py and by the          *)
(* resolve_combat_damage of solver.py, which minimax calls.  No attacker   *)
(* has double strike.                                                      *)
(***************************************************************************)
AssaultAttackers ==
  {[c EXCEPT !.attacking = TRUE, !.tapped = TRUE] :
     c \in {Creature("Attacker", 0, pw, 2, "W", kw) :
              pw \in 1..2, kw \in {{}, {"first_strike"}, {"deathtouch"}}}
           \cup {HeartfireHero(0)}}

AssaultBlockers == {Bear(1), HeartfireHero(1), DragonSniper(1)}

AssaultRoots ==
  {[GameState(life, NoCards, Both(<<a1, a2>>, <<b>>), 0, "combat_damage", 1)
      EXCEPT !.blocking_assignments = blocks] :
     life \in [Players -> 1..GameLife],
     a1 \in AssaultAttackers, a2 \in AssaultAttackers, b \in AssaultBlockers,
     blocks \in {<<>>, 1 :> 1, 2 :> 1}}

InitAssault ==
  /\ state \in AssaultRoots
  /\ memo = <<>>
  /\ dominance = <<>>
  /\ out = [op |-> "start"]

\* solver.py's resolve_combat_damage(state)
SolverResolveCombat ==
  /\ state.phase = "combat_damage"
  /\ state' = solver_resolve_combat_damage(state)
  /\ out' = [op |-> "solver.resolve_combat_damage", before |-> state]
  /\ UNCHANGED <<memo, dominance>>

NextAssault == ResolveCombat \/ SolverResolveCombat

SpecAssault == InitAssault /\ [][NextAssault]_vars

\* the combat damage the attackers without a blocker deal to the defending
\* player
RECURSIVE unblocked_power(_, _)
unblocked_power(s, k) ==
  IF k > Len(s.battlefield[s.active_player]) THEN 0
  ELSE (IF k \in DOMAIN s.blocking_assignments THEN 0
        ELSE get_creature_power(s.battlefield[s.active_player][k]))
       + unblocked_power(s, k + 1)

\* C25: when the combat damage dealt to the defending player brings that
\* player's life to 0 or less, the state returned has game_over set and the
\* attacking player as winner, every creature is still on the battlefield,
\* the graveyards are as before and no death trigger has changed the
\* attacking player's life.
C25_GameEndsBeforeDeaths ==
  (/\ out.op \in {"resolve_combat_damage", "solver.resolve_combat_damage"}
   /\ out.before.life[1] - unblocked_power(out.before, 1) <= 0) =>
    /\ state.game_over
    /\ state.winner = 0
    /\ \A p \in Players : Len(state.battlefield[p]) = Len(out.before.battlefield[p])
    /\ state.graveyard = out.before.graveyard
    /\ state.life[0] = out.before.life[0]

(***************************************************************************)
(* The attacker without a blocker: C26                                     *)
(***************************************************************************)
\* the combat that has been resolved was of an attacker without a blocker
unopposed ==
  out.op = "resolve_combat_damage" /\ out.before.blocking_assignments = <<>>

with_life(s, life) == [s EXCEPT !.life = life]

\* the life totals that are no better for `player` than those of s
no_better(s, player) ==
  {l \in [Players -> 1..MaxLife] :
     l[player] <= s.life[player] /\ l[1 - player] >= s.life[1 - player]}

\* the life totals that are no worse for `player` than those of s
no_worse(s, player) ==
  {l \in [Players -> 1..MaxLife] :
     l[player] >= s.life[player] /\ l[1 - player] <= s.life[1 - player]}

\* C27: when the position is a loss for the player, so is the same position
\* with no more own life and no less opponent life; when it is a win, so is
\* the same position with no less own life and no more opponent life.
C27_ValueMonotoneInLife ==
  (out.op = "minimax" /\ ~state.game_over) =>
    /\ exhaustive(state, out.player, StartDepth) = -1 =>
         \A l \in no_better(state, out.player) :
           exhaustive(with_life(state, l), out.player, StartDepth) \in {-1, Raised}
    /\ exhaustive(state, out.player, StartDepth) = 1 =>
         \A l \in no_worse(state, out.player) :
           exhaustive(with_life(state, l), out.player, StartDepth) \in {1, Raised}

\* a position lost with the better life totals has been searched, and it is
\* lost with worse ones too
C27_Witness ==
  /\ out.op = "minimax"
  /\ ~state.game_over
  /\ exhaustive(state, out.player, StartDepth) = -1
  /\ state.life[out.player] = MaxLife
  /\ state.life[1 - out.player] = 1
  /\ exhaustive(with_life(state, Both(1, 1)), out.player, StartDepth) = -1

(***************************************************************************)
(* Long games: boards on which nothing changes but the life totals.  The   *)
(* game is played as in Spec; out also keeps the life totals of the        *)
(* Upkeep at which the stale counter was last set to 0, the start of the   *)
(* counted run of Upkeeps.                                                 *)
(***************************************************************************)
\* the starting life of the long games
GrindLife == 6

GrindRoots ==
  { GameRoot(Both(GrindLife, GrindLife), NoCards, NoCards, bf) :
      bf \in {Both(<<>>, <<DragonSniper(1)>>),
              Both(<<DragonSniper(0)>>, <<>>),
              Both(<<Bear(0)>>, <<Bear(1)>>),
              Both(<<DragonSniper(0)>>, <<Bear(1)>>)} }

InitGrind ==
  /\ state \in GrindRoots
  /\ memo = <<>>
  /\ dominance = <<>>
  /\ out = [op |-> "start", run_life |-> state.life]

\* the handler of the automatic phase s is in
phase_handler(s) ==
  CASE s.phase = "untap" -> untap(s)
    [] s.phase = "upkeep" -> upkeep(s)
    [] s.phase = "draw" -> draw(s)
    [] s.phase = "combat_damage" -> resolve_combat_damage(s)
    [] s.phase = "end_turn" -> end_turn(s)

GrindPhase ==
  /\ ~state.game_over
  /\ state.phase \in AutomaticPhases
  /\ state.phase = "end_turn" => state.turn < GameMaxTurn
  /\ state' = phase_handler(state)
  /\ out' = [op |-> state.phase,
             run_life |-> IF state.phase = "upkeep" /\ state'.stale_turns = 0
                          THEN state'.life ELSE out.run_life]
  /\ UNCHANGED <<memo, dominance>>

GrindAction ==
  /\ ~state.game_over
  /\ \E k \in DOMAIN get_available_actions(state) :
        state' = get_available_actions(state)[k].ns
  /\ out' = [op |-> "action", run_life |-> out.run_life]
  /\ UNCHANGED <<memo, dominance>>

NextGrind == GrindPhase \/ GrindAction

SpecGrind == InitGrind /\ [][NextGrind]_vars

\* the game has been ended as a draw by the stale counter
stale_draw ==
  state.game_over /\ state.winner = None /\ state.stale_turns >= StaleLimit

\* C28: when the stale counter ends the game as a draw, both life totals are
\* what they were at the start of the counted run of Upkeeps.
C28_StaleDrawKeepsLife ==
  stale_draw => state.life = out.run_life

(***************************************************************************)
(* Declaring attackers and blockers: the two action generators             *)
(* (actions.py's, which the game is played with, and solver.py's, which    *)
(* the search expands) on boards with structurally identical creatures and *)
(* a Pendelhaven on the defending side.  Each step generates the actions   *)
(* of the current phase and executes one of them; out keeps the state the  *)
(* actions were generated for and the generated list.                      *)
(***************************************************************************)
AttackingCards == {Bear(0), [Bear(0) EXCEPT !.tapped = TRUE], DragonSniper(0), Thallid(0)}

DefendingCards == {Bear(1), DragonSniper(1), Thallid(1)}

DeclareRoots ==
  {GameState(Both(GameLife, GameLife), NoCards, Both(b0, b1 \o lands),
             0, "combat_attack", 3) :
     b0 \in UNION {[1..n -> AttackingCards] : n \in 1..MaxBoard},
     b1 \in UNION {[1..n -> DefendingCards] : n \in 0..MaxBoard},
     lands \in {<<>>, <<Pendelhaven(1)>>}}

InitDeclare ==
  /\ state \in DeclareRoots
  /\ memo = <<>>
  /\ dominance = <<>>
  /\ out = [op |-> "start"]

\* actions.py: _get_attack_actions(state), one of the actions executed
GetAttackActions ==
  /\ state.phase = "combat_attack"
  /\ out.op \in {"start", "_get_attack_actions"}
  /\ \E k \in DOMAIN _get_attack_actions(state) :
        state' = _get_attack_actions(state)[k].ns
  /\ out' = [op |-> "_get_attack_actions", before |-> state,
             actions |-> _get_attack_actions(state)]
  /\ UNCHANGED <<memo, dominance>>

\* actions.py: _get_block_actions(state), one of the actions executed
GetBlockActions ==
  /\ state.phase = "combat_block"
  /\ out.op \in {"_get_attack_actions", "_get_block_actions"}
  /\ \E k \in DOMAIN _get_block_actions(state) :
        state' = _get_block_actions(state)[k].ns
  /\ out' = [op |-> "_get_block_actions", before |-> state,
             actions |-> _get_block_actions(state)]
  /\ UNCHANGED <<memo, dominance>>

\* solver.py: get_available_actions(state) in the two declaration phases
SolverGetAvailableActions ==
  /\ state.phase \in {"combat_attack", "combat_block"}
  /\ out.op \in {"start", "solver.combat_attack", "solver.combat_block"}
  /\ \E k \in DOMAIN solver_get_available_actions(state) :
        state' = solver_get_available_actions(state)[k].ns
  /\ out' = [op |-> "solver." \o state.phase, before |-> state,
             actions |-> solver_get_available_actions(state)]
  /\ UNCHANGED <<memo, dominance>>

NextDeclare == GetAttackActions \/ GetBlockActions \/ SolverGetAvailableActions

SpecDeclare == InitDeclare /\ [][NextDeclare]_vars

\* the creatures of the active player that pass every test of the attack
\* loop before the signature is looked up
able_attackers(s) ==
  LET bf == s.battlefield[s.active_player]
  IN {i \in DOMAIN bf : /\ isCreature(bf[i])
                        /\ can_attack(bf[i])
                        /\ ~bf[i].attacking}

\* the creatures the action a declares as attackers in s
declared(s, a) ==
  {i \in DOMAIN s.battlefield[s.active_player] :
     /\ a.ns.battlefield[s.active_player][i].attacking
     /\ ~s.battlefield[s.active_player][i].attacking}

\* S and T hold the same multiset of dedup signatures
same_signatures(s, S, T) ==
  LET bf == s.battlefield[s.active_player]
      count(X, i) == Cardinality({j \in X : creature_sig(bf[j]) = creature_sig(bf[i])})
  IN \A i \in S \cup T : count(S, i) = count(T, i)

\* C29: for every subset S of the eligible attackers there is a generated
\* attack action whose attackers have the same multiset of dedup signatures
\* as S.
C29_EverySubsetCanAttack ==
  out.op = "_get_attack_actions" =>
    \A S \in SUBSET able_attackers(out.before) :
      \E k \in DOMAIN out.actions :
        same_signatures(out.before, S, declared(out.before, out.actions[k]))

\* what a creature is in play: its name, its printed power and toughness,
\* its counters and its until-end-of-turn modifications
boosted_sig(c) ==
  <<c.name, c.power, c.toughness, c.plus_counters,
    eot_power_boost(c), eot_toughness_boost(c)>>

\* the (blocker, attacker) pairs of s that pass every test of the block
\* loops before the signature is looked up
able_blocks(s) ==
  LET bf == s.battlefield[1 - s.active_player]
      att == s.battlefield[s.active_player]
  IN {p \in (DOMAIN bf) \X (DOMAIN att) :
        /\ isCreature(bf[p[1]])
        /\ ~bf[p[1]].tapped
        /\ \A k \in DOMAIN s.blocking_assignments : s.blocking_assignments[k] # p[1]
        /\ p[2] \in get_attackers(s)
        /\ p[2] \notin DOMAIN s.blocking_assignments
        /\ can_block(bf[p[1]], att[p[2]])}

\* the (blocker, attacker) pairs the action a adds to the assignments of s
blocked_by(s, a) ==
  {p \in (DOMAIN s.battlefield[1 - s.active_player])
           \X (DOMAIN s.battlefield[s.active_player]) :
     /\ p[2] \in DOMAIN a.ns.blocking_assignments
     /\ p[2] \notin DOMAIN s.blocking_assignments
     /\ a.ns.blocking_assignments[p[2]] = p[1]}

\* some generated attack action declares a creature that is what creature i is
attack_offered(s, actions, i) ==
  \E k \in DOMAIN actions : \E j \in declared(s, actions[k]) :
     boosted_sig(s.battlefield[s.active_player][j])
       = boosted_sig(s.battlefield[s.active_player][i])

\* some generated block action pairs creatures that are what the pair p is
block_offered(s, actions, p) ==
  \E k \in DOMAIN actions : \E q \in blocked_by(s, actions[k]) :
     /\ boosted_sig(s.battlefield[1 - s.active_player][q[1]])
          = boosted_sig(s.battlefield[1 - s.active_player][p[1]])
     /\ boosted_sig(s.battlefield[s.active_player][q[2]])
          = boosted_sig(s.battlefield[s.active_player][p[2]])

\* C30: the signatures that deduplicate attackers and blocker/attacker pairs
\* include the until-end-of-turn power and toughness modifications: no
\* creature is left without an action of its own because another creature,
\* different from it only in a temporary boost, has one.
C30_BoostNeverMerged ==
  /\ out.op \in {"_get_attack_actions", "solver.combat_attack"} =>
       \A i \in able_attackers(out.before) :
          attack_offered(out.before, out.actions, i)
  /\ out.op \in {"_get_block_actions", "solver.combat_block"} =>
       \A p \in able_blocks(out.before) :
          block_offered(out.before, out.actions, p)

(***************************************************************************)
(* The beginning of combat with a Luminarch Aspirant: the same two         *)
(* generators on boards whose active player has a combat-begin trigger.    *)
(***************************************************************************)
TriggerCards ==
  {LuminarchAspirant(0), [LuminarchAspirant(0) EXCEPT !.combat_trigger_used = TRUE],
   Bear(0), HeartfireHero(0)}

\* boards with one Aspirant at most: the closures mark the first Aspirant
\* only, so that the trigger of a second one is offered again without end
TriggerBoards ==
  {b \in UNION {[1..n -> TriggerCards] : n \in 1..(MaxBoard + 1)} :
     Cardinality({i \in DOMAIN b : b[i].cls = "LuminarchAspirant"}) <= 1}

TriggerRoots ==
  {GameState(Both(GameLife, GameLife), NoCards, Both(b0, b1), 0, "combat_attack", 3) :
     b0 \in TriggerBoards, b1 \in {<<>>, <<Bear(1)>>, <<Bear(1), DragonSniper(1)>>}}

InitTrigger ==
  /\ state \in TriggerRoots
  /\ memo = <<>>
  /\ dominance = <<>>
  /\ out = [op |-> "start"]

SpecTrigger == InitTrigger /\ [][NextDeclare]_vars

\* the trigger actions the permanents of the active player of s expose
trigger_actions(s) == battlefield_actions(s, s.active_player, 1)

\* C31: in CombatAttack, if a permanent of the active player exposes a
\* combat-begin trigger action, the generated actions are those trigger
\* actions and nothing else: no attack and no no-attack action.
C31_TriggersPreempt ==
  (/\ out.op \in {"_get_attack_actions", "solver.combat_attack"}
   /\ trigger_actions(out.before) # <<>>)
    => out.actions = trigger_actions(out.before)

\* C32: when no trigger pre-empts, the attack actions are exactly the
\* subsets of the deduplicated eligible attackers, each subset declared by
\* one action (2^k actions for k representatives, the empty subset being the
\* no-attack action), listed in non-increasing order of subset size.
C32_AttackSubsets ==
  (/\ out.op \in {"_get_attack_actions", "solver.combat_attack"}
   /\ trigger_actions(out.before) = <<>>)
    => LET subsets == SUBSET eligible_attackers(out.before)
           attackers(k) == declared(out.before, out.actions[k])
       IN /\ Len(out.actions) = Cardinality(subsets)
          /\ {attackers(k) : k \in DOMAIN out.actions} = subsets
          /\ \A i, j \in DOMAIN out.actions :
                i < j => Cardinality(attackers(i)) >= Cardinality(attackers(j))

(***************************************************************************)
(* The removal of the dead: C33                                            *)
(***************************************************************************)
\* the combat of s after its damage passes and before the removal loops: the
\* state with the damage dealt and the two sets of marked creatures
marked(s) ==
  LET atts == attackers_with_idx(s)
      acc0 == [ns |-> s, dead_attackers |-> {}, dead_blockers |-> {}]
      acc1 == IF any_first_strike(s) THEN damage_loop(acc0, atts, 1, TRUE) ELSE acc0
  IN damage_loop(acc1, atts, 1, FALSE)

\* the dead of the player in the combat of s
dead_of(s, player) ==
  IF player = s.active_player THEN marked(s).dead_attackers
  ELSE marked(s).dead_blockers

RECURSIVE death_triggers(_, _, _)
\* the calls of on_death the removal loop of one player makes, in order: the
\* dying card with the state it is given
death_triggers(ns, player, dead) ==
  IF dead = {} THEN <<>>
  ELSE LET i == CHOOSE x \in dead : \A y \in dead : x >= y
           c == ns.battlefield[player][i]
           buried == [ns EXCEPT !.graveyard[player] = Append(@, c)]
       IN (IF c.cls = "HeartfireHero"
           THEN << [card |-> c, player |-> player, given |-> buried] >>
           ELSE <<>>)
          \o death_triggers([on_death(c, buried) EXCEPT
                               !.battlefield[player] = RemoveAt(@, i)],
                            player, dead \ {i})

\* the removal loops have run in the resolution out records: solver.py's
\* always, combat.py's unless the damage to a player has ended the game
removal_ran ==
  \/ out.op = "solver.resolve_combat_damage"
  \/ /\ out.op = "resolve_combat_damage"
     /\ state.graveyard # out.before.graveyard \/ ~state.game_over

\* the cards of the zone at the indices in keep, in order
kept(zone, keep) == [k \in 1..Cardinality(keep) |-> zone[SeqOfSet(keep)[k]]]

\* the cards of the zone at the indices in dead, highest index first
fallen(zone, dead) ==
  [k \in 1..Cardinality(dead) |-> zone[SeqOfSet(dead)[Cardinality(dead) + 1 - k]]]

\* how many cards of the zone are the card c
copies(zone, c) == Cardinality({k \in DOMAIN zone : zone[k] = c})

\* C33: the removal after combat damage takes exactly the creatures marked
\* dead off the battlefield, highest index first, every survivor staying in
\* place; each dead creature is put in its owner's graveyard; and a death
\* trigger is invoked only when its creature is off the battlefield.
C33_DeadRemovedThenTriggered ==
  removal_ran =>
    LET s == out.before
        fought_state == marked(s).ns
        defender == 1 - s.active_player
        after_blockers == bury(fought_state, defender, dead_of(s, defender))
    IN /\ \A p \in Players :
            /\ state.battlefield[p]
                 = kept(fought_state.battlefield[p],
                        DOMAIN fought_state.battlefield[p] \ dead_of(s, p))
            /\ state.graveyard[p]
                 = s.graveyard[p] \o fallen(fought_state.battlefield[p], dead_of(s, p))
            /\ \A k \in DOMAIN state.graveyard[p] : state.graveyard[p][k].owner = p
       /\ \A call \in Range(death_triggers(fought_state, defender, dead_of(s, defender)))
                   \cup Range(death_triggers(after_blockers, s.active_player,
                                             dead_of(s, s.active_player))) :
            copies(call.given.battlefield[call.player], call.card)
              < copies(fought_state.battlefield[call.player], call.card)

(***************************************************************************)
(* The search returns, and what it returns: C34 to C36.                    *)
(***************************************************************************)
\* minimax called on s beyond the depth limit
beyond_limit(s, player) ==
  minimax(s, player, <<>>, MaxDepth + 1, -2, 2, <<>>, TablesOn, 1)

\* C34: every minimax call returns a value; every recursive call is made at
\* depth + 1, so that the search from StartDepth ends within the horizon;
\* and a call at a depth greater than the hard cap returns at once, without
\* recursing (it makes no new state), the value being draw unless a rule of
\* the fallback heuristic decides the position.
C34_EveryCallReturns ==
  out.op = "minimax" =>
    /\ out.value \in Values
    /\ beyond_limit(state, out.player).next = 2
    /\ beyond_limit(state, out.player).memo = <<>>
    /\ beyond_limit(state, out.player).value
         = IF state.game_over THEN terminal_value(state, out.player)
           ELSE max_depth_value(state, out.player)

\* the values the call r has left in the two tables
stored_values(r) ==
  {r.memo[k][1] : k \in DOMAIN r.memo}
    \cup UNION {{r.dominance[b][i][3] : i \in DOMAIN r.dominance[b]} :
                  b \in DOMAIN r.dominance}

\* C35: whatever the node and whatever the window it is entered with, the
\* value minimax returns is one of -1, 0 and 1, and so is every value the
\* call has stored in the transposition table and in the dominance table.
C35_TernaryValues ==
  out.op = "minimax" =>
    \A w \in EntryWindows :
      \A r \in {entered(state, out.player, w[1], w[2])} :
        /\ r.value \in Values \cup {Raised}
        /\ stored_values(r) \subseteq Values

\* a search that has returned a win and has filled both tables
C35_Witness ==
  /\ out.op = "minimax"
  /\ out.value = 1
  /\ \A r \in {entered(state, out.player, -2, 2)} :
        r.memo # <<>> /\ r.dominance # <<>>

\* C36: the search is zero-sum across the two perspectives.  On every state
\* the value minimax computes for player 0 is the negation of the value it
\* computes for player 1 (and the one call raises exactly when the other
\* does); so are the value of a call beyond the depth limit, which is the
\* terminal result or the verdict of the depth-limit heuristic, and the
\* verdict of the early heuristic, which decides for both players or for
\* neither.
C36_ZeroSum ==
  out.op = "minimax" =>
    /\ \A v \in {search_value(state, 0, 1)} :
         \A u \in {search_value(state, 1, 1)} :
           /\ (v = Raised) <=> (u = Raised)
           /\ v # Raised => v = 0 - u
    /\ beyond_limit(state, 0).value = 0 - beyond_limit(state, 1).value
    /\ \A e \in {evaluate_early_grinding(state, 0, EarlyDepth + 1)} :
         \A f \in {evaluate_early_grinding(state, 1, EarlyDepth + 1)} :
           /\ (e = None) <=> (f = None)
           /\ e # None => e = 0 - f

\* a search that one perspective wins and the other loses
C36_Witness ==
  /\ out.op = "minimax"
  /\ out.player = 0
  /\ out.value = 1
  /\ search_value(state, 1, 1) = -1

(***************************************************************************)
(* The line of play agrees with the verdict: C37.                          *)
(***************************************************************************)
\* solve: `life=[20, 20]`
SolveLife == 20

\* the initial states solve() builds, with the life it gives, for the
\* matchups of a Forest and a Dragon Sniper against an empty hand, the owner
\* of the Sniper playing first
LineRoots ==
  {[initial_state(h0, h1, fp) EXCEPT !.life = [p \in Players |-> SolveLife]] :
     h0 \in {<<>>, <<create_forest(0), DragonSniper(0)>>},
     h1 \in {<<>>, <<create_forest(1), DragonSniper(1)>>},
     fp \in Players}

InitLine ==
  /\ state \in {r \in LineRoots :
                  /\ r.hands[r.active_player] # <<>>
                  /\ r.hands[1 - r.active_player] = <<>>}
  /\ memo = <<>>
  /\ dominance = <<>>
  /\ out = Idle

\* the initial state is searched as solve() searches it (minimax for player
\* 0, tables of its own) and then given to find_optimal_line, which makes
\* its own memo; verdict is the result of the search
SolveThenLine ==
  /\ out = Idle
  /\ out' = [op |-> "line", status |-> "running", depth |-> 0, attacks |-> 0,
             at |-> state, decision_maker |-> None, next |-> 1,
             verdict |-> search_value(state, 0, 1)]
  /\ memo' = <<>>
  /\ UNCHANGED <<state, dominance>>

NextLine == SolveThenLine \/ LineStep

SpecLine == InitLine /\ [][NextLine]_vars

\* C37: when solve() reports that a player wins, the line find_optimal_line
\* returns from the same initial state ends in a state where the game is
\* over and that player is the winner.
C37_LineReachesVerdict ==
  (/\ out.op = "line"
   /\ out.status # "running"
   /\ out.verdict \in {1, -1})
    => /\ state.game_over
       /\ state.winner = IF out.verdict = 1 THEN 0 ELSE 1

(***************************************************************************)
(* The zones of the cards: C38.  A card is told from the others by its     *)
(* name and its owner.                                                     *)
(***************************************************************************)
\* the zone lists of the state s
zone_lists(s) ==
  {s.stack} \cup UNION {{s.hands[p], s.battlefield[p], s.artifacts[p],
                          s.graveyard[p], s.library[p], s.enchantments[p]} :
                           p \in Players}

\* the cards named `name` and owned by `owner` that the zone holds
named(zone, name, owner) ==
  Cardinality({k \in DOMAIN zone : zone[k].name = name /\ zone[k].owner = owner})

\* the places the state s has for the cards named `name` of `owner`, over
\* the stack and the zones of both players
places(s, name, owner) ==
  LET of(p) == named(s.hands[p], name, owner)
                 + named(s.battlefield[p], name, owner)
                 + named(s.artifacts[p], name, owner)
                 + named(s.graveyard[p], name, owner)
                 + named(s.library[p], name, owner)
                 + named(s.enchantments[p], name, owner)
  IN of(0) + of(1) + named(s.stack, name, owner)

\* the <<name, owner>> of the cards of s
cards_in(s) ==
  UNION {{<<zone[k].name, zone[k].owner>> : k \in DOMAIN zone} :
           zone \in zone_lists(s)}

\* C38: no step of the game duplicates a card or loses one: a card that was
\* in one zone before the step is in one zone after it, so that a creature
\* spell that has resolved is on the battlefield and nowhere else.
C38_OneZonePerCard ==
  [][\A c \in cards_in(state) \cup cards_in(state') :
       places(state', c[1], c[2]) = places(state, c[1], c[2])]_vars

\* C39: the early heuristic returns draw (0) only where the creature sets of
\* the two sides are combat-symmetric and neither side can grow.
C39_DrawOnlySymmetric ==
  (out.op = "evaluate_early_grinding" /\ out.value = 0) =>
    /\ combat_symmetric(state)
    /\ ~can_grow(get_creatures(state.battlefield[0]))
    /\ ~can_grow(get_creatures(state.battlefield[1]))

(***************************************************************************)
(* The combat map at damage time: C40.                                     *)
(***************************************************************************)
\* what tells a permanent from the others of its battlefield, apart from
\* what tapping and pumping change
permanent(c) ==
  <<c.cls, c.name, c.owner, c.power, c.toughness, c.plus_counters, c.attacking>>

\* the permanents of both battlefields, slot by slot
slots(s) ==
  [p \in Players |-> [i \in DOMAIN s.battlefield[p] |-> permanent(s.battlefield[p][i])]]

\* every key of the combat map is the slot of an attacking creature of the
\* active player, every value the slot of a creature of the defender
map_refers(s) ==
  \A a \in DOMAIN s.blocking_assignments :
    /\ a \in DOMAIN s.battlefield[s.active_player]
    /\ isCreature(s.battlefield[s.active_player][a])
    /\ s.battlefield[s.active_player][a].attacking
    /\ s.blocking_assignments[a] \in DOMAIN s.battlefield[1 - s.active_player]
    /\ isCreature(s.battlefield[1 - s.active_player][s.blocking_assignments[a]])

\* C40: a step taken in the block phase (a block, a pump, the end of the
\* declarations) leaves every permanent in its slot on both battlefields and
\* keeps the entries the combat map has; and when damage is to be resolved
\* every key of the map is the slot of an attacking creature of the active
\* player and every value the slot of a creature of the defender.
C40_CombatMapRefers ==
  [][/\ state.phase = "combat_block" =>
          /\ slots(state') = slots(state)
          /\ \A a \in DOMAIN state.blocking_assignments :
                /\ a \in DOMAIN state'.blocking_assignments
                /\ state'.blocking_assignments[a] = state.blocking_assignments[a]
     /\ state'.phase = "combat_damage" => map_refers(state')]_vars

\* damage is to be resolved with a block in the map, declared after the
\* defender has pumped a creature
C40_Witness ==
  /\ state.phase = "combat_damage"
  /\ out.op = "_get_block_actions"
  /\ state.blocking_assignments # <<>>
  /\ \E i \in DOMAIN state.battlefield[1] :
        eot_power_boost(state.battlefield[1][i]) > 0

====
